---- MODULE Spec2Model ----
(***************************************************************************)
(* A model of the Ising energy model of data.py (IsingModel, IsingSample)  *)
(* and of the dictionary variants of util.py (zerodefaultdict,             *)
(* symmetriczerodefaultdict, hashabledict).                                *)
(*                                                                         *)
(* A Python dict is a TLA+ function with a finite domain.  Coefficients    *)
(* are integers, so that energies are compared exactly.                    *)
(*                                                                         *)
(* Two things Python keeps about these values show only in the text that   *)
(* serialize writes, and the record of an IsingModel holds them beside the *)
(* functions:                                                              *)
(*  - order: for each dictionary attribute the sequence of its keys in the *)
(*    order the dict holds them (the order of their first insertion);      *)
(*  - floats: which numbers are Python floats.  The coefficients a model   *)
(*    is constructed with and the values clamp is called with are ints;    *)
(*    zerodefaultdict.__missing__ returns the float 0.0, so the values of  *)
(*    h_clamped that clamp stored under a new key, and every number        *)
(*    computed from one of them, are floats of integral value.  floats     *)
(*    names the float values of h_clamped and says whether energy_offset   *)
(*    is one; a Sample says it of its energy in energy_float.  A float     *)
(*    equals (==) the int of the same value, so nothing but the text       *)
(*    written depends on it.                                               *)
(***************************************************************************)
EXTENDS Integers, Sequences, FiniteSets, TLC

VARIABLES
    m,            \* the IsingModel instance (a record of its attributes)
    constructed,  \* history: J and h as they were when __init__ returned
    last,         \* the last IsingModel.clamp call: arguments and outcome
    call,         \* the last IsingSample(...) call: arguments and outcome
    cmp,          \* the last comparison of two IsingSamples
    py_major,     \* major version of the interpreter running the code
    d,            \* a symmetriczerodefaultdict exercised on its own
    written,      \* history: the unordered pairs ever written to d
    dcall,        \* the last operation on d: arguments and outcome
    heap,         \* SamplePool.heap: the list of pooled IsingSample objects
    added,        \* history: occurrences handed to SamplePool.add, by key
    pcall,        \* the last SamplePool or sampler call and its outcome
    copied,       \* the IsingModel that m.copy() returned
    ser,          \* the last serialize / deserialize round trip
    exported,     \* the last as_dwave call and what it returned
    g,            \* the GibbsSampler instance and its running generator
    par           \* a BruteforceSampler.sample call in progress, by step

vars == <<m, constructed, last, call, cmp, py_major, d, written, dcall,
          heap, added, pcall, copied, ser, exported, g, par>>

----------------------------------------------------------------------------
(* Bounds of the model.                                                    *)

\* variables are the integers 0..MaxVar
MaxVar == 2
\* at most MaxJ items in the J dictionary handed to IsingModel
MaxJ == 2
\* at most MaxH items in the h dictionary handed to IsingModel
MaxH == 1

VarIds == 0..MaxVar
\* the coupling a model is given for the pair key, and the bias it is given
\* for variable k: both signs and two magnitudes occur
JCoef(key) == IF (key[1] + key[2]) % 2 = 1 THEN 1 ELSE -2
HCoef(k) == IF k % 2 = 0 THEN 3 ELSE -1
\* the values written to a symmetriczerodefaultdict exercised on its own
DictVals == {-2, 1}
\* sequences handed to IsingSample have up to one value more than a model
\* can have variables
MaxLen == MaxVar + 2
\* values clamp is called with: the two spins and an invalid value
ClampVals == {-1, 1, 5}
Spins == {-1, 1}

----------------------------------------------------------------------------
(* Python dictionaries as functions.                                       *)

EmptyDict == [x \in {} |-> 0]

DictSet(dict, key, value) ==
    [x \in (DOMAIN dict) \cup {key} |-> IF x = key THEN value ELSE dict[x]]

DictDel(dict, key) == [x \in (DOMAIN dict) \ {key} |-> dict[x]]

\* dict.update(other): the entries of other win
DictUpdate(dict, other) ==
    [x \in (DOMAIN dict) \cup (DOMAIN other) |->
        IF x \in DOMAIN other THEN other[x] ELSE dict[x]]

RECURSIVE SumOver(_, _)
\* sum of f[x] for x in the finite set S, f a function
SumOver(S, f) ==
    IF S = {} THEN 0
    ELSE LET x == CHOOSE y \in S : TRUE
         IN  f[x] + SumOver(S \ {x}, f)

\* the keys of a dict after dict[key] = value: a new key goes to the end, a
\* key the dict already holds stays where it is
order_set(order, key) ==
    IF \E r \in 1..Len(order) : order[r] = key THEN order
    ELSE Append(order, key)

\* the keys of a dict after the key was popped
order_del(order, key) == SelectSeq(order, LAMBDA x : x # key)

\* the keys of a dict after the keys were stored one after the other
RECURSIVE order_update(_, _)
order_update(order, keys) ==
    IF keys = <<>> THEN order
    ELSE order_update(order_set(order, Head(keys)), Tail(keys))

\* dict.items(): the items of the dict in the order of its keys
dict_items(dict, order) ==
    [r \in 1..Len(order) |-> <<order[r], dict[order[r]]>>]

\* dict.update(other) / dict(other) on a sequence of items <<key, value>>,
\* in iteration order
RECURSIVE dict_update(_, _)
dict_update(dict, other) ==
    IF other = <<>> THEN dict
    ELSE dict_update(DictSet(dict, Head(other)[1], Head(other)[2]),
                     Tail(other))

\* sorted(S) for a finite set of integers
RECURSIVE sorted(_)
sorted(S) ==
    IF S = {} THEN <<>>
    ELSE LET lo == CHOOSE x \in S : \A y \in S : x <= y
         IN  <<lo>> \o sorted(S \ {lo})

----------------------------------------------------------------------------
(* util.py: zerodefaultdict                                                *)

\* as zerodefaultdict_missing, storing the default like a defaultdict with a
\* default_factory does
zerodefaultdict_missing_stores(dict, key) ==
    [dict |-> DictSet(dict, key, 0), value |-> 0]

\* zerodefaultdict.__missing__: returns 0.0 and stores nothing
zerodefaultdict_missing(dict, key) == [dict |-> dict, value |-> 0]

\* zerodefaultdict.__init__(other): the dict updated with the items of other
zerodefaultdict_init(other) == dict_update(EmptyDict, other)

\* dict.__getitem__ as inherited by zerodefaultdict: the value read and the
\* dictionary after the read
zerodefaultdict_getitem(dict, key) ==
    IF key \in DOMAIN dict THEN [dict |-> dict, value |-> dict[key]]
    ELSE zerodefaultdict_missing(dict, key)

\* dict.pop(key, default) as inherited by zerodefaultdict
zerodefaultdict_pop(dict, key, default) ==
    [dict  |-> DictDel(dict, key),
     value |-> IF key \in DOMAIN dict THEN dict[key] ELSE default]

----------------------------------------------------------------------------
(* util.py: symmetriczerodefaultdict.  Keys are pairs <<i, j>>.            *)

\* tuple(sorted(key))
sorted_key(key) == IF key[1] <= key[2] THEN key ELSE <<key[2], key[1]>>

\* key.count(key[0]) == len(key)
is_diagonal(key) == key[1] = key[2]

\* symmetriczerodefaultdict.__getitem__
symmetric_getitem(dict, key) ==
    zerodefaultdict_getitem(dict, sorted_key(key))

\* symmetriczerodefaultdict.get
symmetric_get(dict, key, default) ==
    IF sorted_key(key) \in DOMAIN dict THEN dict[sorted_key(key)] ELSE default

\* as symmetric_setitem, storing under the key as given
symmetric_setitem_unsorted(dict, key, value) ==
    IF is_diagonal(key)
    THEN [dict |-> dict, error |-> "ValueError"]
    ELSE [dict |-> DictSet(dict, key, value), error |-> "none"]

\* symmetriczerodefaultdict.__setitem__: error "ValueError" on a diagonal key
symmetric_setitem(dict, key, value) ==
    IF is_diagonal(key)
    THEN [dict |-> dict, error |-> "ValueError"]
    ELSE [dict |-> DictSet(dict, sorted_key(key), value), error |-> "none"]

\* symmetriczerodefaultdict.pop: dict.pop without a default, KeyError when
\* the sorted key is missing
symmetric_pop(dict, key) ==
    IF sorted_key(key) \in DOMAIN dict
    THEN [dict  |-> DictDel(dict, sorted_key(key)),
          value |-> dict[sorted_key(key)], error |-> "none"]
    ELSE [dict |-> dict, value |-> 0, error |-> "KeyError"]

\* symmetriczerodefaultdict.update / __init__ on a sequence of items
\* <<key, value>>, in iteration order; no item has a diagonal key
RECURSIVE symmetric_update(_, _)
symmetric_update(dict, items) ==
    IF items = <<>> THEN dict
    ELSE symmetric_update(
             symmetric_setitem(dict, Head(items)[1], Head(items)[2]).dict,
             Tail(items))

\* symmetriczerodefaultdict.elements
elements(dict) ==
    {key[1] : key \in DOMAIN dict} \cup {key[2] : key \in DOMAIN dict}

----------------------------------------------------------------------------
(* Python sets of ints, as CPython 3.11 keeps them: a hash table whose     *)
(* slots are unused, hold a key, or held a key that was discarded (dummy). *)
(* Iterating a set visits its slots in table order, so list(s) depends on  *)
(* how s was built.  A table is the sequence of its slots; slot numbers    *)
(* count from 0 as in the interpreter.                                     *)

(* The interpreter's constants appear as numbers: a new table has 8 slots  *)
(* (PySet_MINSIZE), the 9 slots after a taken slot are tried before the    *)
(* next jump (LINEAR_PROBES), and each jump uses up 5 bits of the hash     *)
(* (PERTURB_SHIFT).                                                        *)

unused == [state |-> "unused", key |-> 0]
dummy == [state |-> "dummy", key |-> 0]
active(key) == [state |-> "active", key |-> key]

\* hash(key) of an int smaller than 2^61 - 1 in magnitude
hash(key) == IF key = -1 THEN -2 ELSE key

\* a table of size unused slots; set() has new_table(8)
new_table(size) == [i \in 1..size |-> unused]

\* table[slot] = entry
set_entry(table, slot, entry) ==
    SubSeq(table, 1, slot) \o <<entry>> \o SubSeq(table, slot + 2, Len(table))

\* so->fill: the slots that are active or dummy, and so->used: the active
set_fill(table) ==
    Cardinality({i \in 1..Len(table) : table[i].state # "unused"})
set_used(table) ==
    Cardinality({i \in 1..Len(table) : table[i].state = "active"})

\* list(s): the keys of the active slots in table order
RECURSIVE set_list_between(_, _, _)
set_list_between(table, lo, hi) ==
    IF lo > hi THEN <<>>
    ELSE IF lo = hi
    THEN IF table[lo].state = "active" THEN <<table[lo].key>> ELSE <<>>
    ELSE set_list_between(table, lo, (lo + hi) \div 2)
            \o set_list_between(table, (lo + hi) \div 2 + 1, hi)
set_list(table) == set_list_between(table, 1, Len(table))

\* size_t perturb = hash: the hash as an unsigned 64-bit number, which is
\* 2^wrap + value with wrap = 64 for a negative hash, and value otherwise
perturb_of(h) == [wrap |-> IF h < 0 THEN 64 ELSE 0, value |-> h]

\* perturb >>= PERTURB_SHIFT
perturb_shift(perturb) ==
    LET shifted == (perturb.value - (perturb.value % 32)) \div 32
    IN  IF perturb.wrap = 0 THEN [wrap |-> 0, value |-> shifted]
        ELSE IF perturb.wrap - 5 < 30
        THEN [wrap |-> 0, value |-> 2^(perturb.wrap - 5) + shifted]
        ELSE [wrap |-> perturb.wrap - 5, value |-> shifted]

\* set_lookkey, and the search of set_add_entry and of set_insert_clean in a
\* table without dummy slots: the first slot, in probing order from slot i,
\* that is unused or holds the key
RECURSIVE set_lookkey(_, _, _, _)
set_lookkey(table, key, i, perturb) ==
    LET mask   == Len(table) - 1
        probed == IF i + 9 <= mask THEN i..(i + 9) ELSE {i}
        found  == {j \in probed : table[j + 1] \in {unused, active(key)}}
    IN  IF table[i + 1] \in {unused, active(key)} THEN i
        ELSE IF found # {} THEN CHOOSE j \in found : \A k \in found : j <= k
        ELSE set_lookkey(table, key,
                         (i * 5 + 1
                            + (perturb_shift(perturb).value % (mask + 1)))
                           % (mask + 1),
                         perturb_shift(perturb))

\* the slot of key in the table
set_slot(table, key) ==
    set_lookkey(table, key, hash(key) % Len(table), perturb_of(hash(key)))

\* set_insert_clean: the key is not in the table, which has no dummy slot
set_insert_clean(table, key) ==
    set_entry(table, set_slot(table, key), active(key))

RECURSIVE set_insert_clean_all(_, _)
set_insert_clean_all(table, keys) ==
    IF keys = <<>> THEN table
    ELSE set_insert_clean_all(set_insert_clean(table, Head(keys)),
                              Tail(keys))

\* the size set_table_resize gives the table: newsize, which starts as 8,
\* doubled until it is more than minused
RECURSIVE set_table_size(_, _)
set_table_size(newsize, minused) ==
    IF newsize <= minused THEN set_table_size(newsize * 2, minused)
    ELSE newsize

\* set_table_resize: the active keys are entered in a new table in the
\* order of their slots
set_table_resize(table, minused) ==
    set_insert_clean_all(new_table(set_table_size(8, minused)),
                         set_list(table))

\* set_add_entry on a table without dummy slots (the program adds to no set
\* that it has discarded from): the table grows when 3/5 of it are filled
set_add_entry(table, key) ==
    LET slot    == set_slot(table, key)
        entered == set_entry(table, slot, active(key))
    IN  IF table[slot + 1] = active(key) THEN table
        ELSE IF set_fill(entered) * 5 < (Len(table) - 1) * 3 THEN entered
        ELSE set_table_resize(entered,
                              IF set_used(entered) > 50000
                              THEN set_used(entered) * 2
                              ELSE set_used(entered) * 4)

\* set.update(iterable) and set(iterable) of an iterable that is no set and
\* no plain dict: the keys are added in iteration order
RECURSIVE set_update(_, _)
set_update(table, keys) ==
    IF keys = <<>> THEN table
    ELSE set_update(set_add_entry(table, Head(keys)), Tail(keys))

\* set_merge(so, other) of two sets: so grows first when the keys of both
\* would fill 3/5 of it; an empty so of the size of an other without dummy
\* slots takes over the slots of other as they are, and any other empty so
\* takes the keys of other in the order of their slots
set_merge(so, other) ==
    LET grown == IF (set_fill(so) + set_used(other)) * 5
                       >= (Len(so) - 1) * 3
                 THEN set_table_resize(so,
                                       (set_used(so) + set_used(other)) * 2)
                 ELSE so
    IN  IF set_used(other) = 0 THEN so
        ELSE IF /\ set_fill(grown) = 0
                /\ Len(grown) = Len(other)
                /\ set_fill(other) = set_used(other)
        THEN other
        ELSE IF set_fill(grown) = 0
        THEN set_insert_clean_all(grown, set_list(other))
        ELSE set_update(grown, set_list(other))

\* set.copy(): a new set that the set is merged into
set_copy(so) == set_merge(new_table(8), so)

\* so | other: a copy of so that other is merged into
set_or(so, other) == set_merge(set_copy(so), other)

\* set.discard(key): the slot of the key becomes a dummy
set_discard(table, key) ==
    LET slot == set_slot(table, key)
    IN  IF table[slot + 1] = active(key) THEN set_entry(table, slot, dummy)
        ELSE table

\* the keys a table holds
set_keys(table) == {set_list(table)[r] : r \in 1..Len(set_list(table))}

----------------------------------------------------------------------------
(* data.py: IsingModel                                                     *)

\* the keys of symmetriczerodefaultdict(J) and of zerodefaultdict(h), in
\* the order of the dict
symmetric_order(J) ==
    order_update(<<>>, [r \in 1..Len(J) |-> sorted_key(J[r][1])])
zerodefault_order(h) == order_update(<<>>, [r \in 1..Len(h) |-> h[r][1]])

\* the hash table of the set that self.J.elements | set(self.h) gives, J and
\* h being the keys of the two dicts in their order: elements makes a set of
\* the first members of the keys and a set of the second members and unites
\* them
variables_table(J, h) ==
    set_or(set_or(set_update(new_table(8),
                             [r \in 1..Len(J) |-> J[r][1]]),
                  set_update(new_table(8),
                             [r \in 1..Len(J) |-> J[r][2]])),
           set_update(new_table(8), h))

\* IsingModel.__init__(J, h): J and h are the dictionaries handed in, each
\* the sequence of its items <<key, value>> in the order of the dict, with
\* int values.  variables is the set self.variables and slots the hash
\* table that holds it.
IsingModel_init(J, h) ==
    [J             |-> symmetric_update(EmptyDict, J),
     h             |-> zerodefaultdict_init(h),
     J_clamped     |-> symmetric_update(EmptyDict, J),
     h_clamped     |-> zerodefaultdict_init(h),
     clamped       |-> EmptyDict,
     energy_offset |-> 0,
     variables     |-> elements(symmetric_update(EmptyDict, J))
                         \cup DOMAIN zerodefaultdict_init(h),
     slots         |-> variables_table(symmetric_order(J),
                                       zerodefault_order(h)),
     order         |-> [J         |-> symmetric_order(J),
                        h         |-> zerodefault_order(h),
                        J_clamped |-> symmetric_order(J),
                        h_clamped |-> zerodefault_order(h),
                        clamped   |-> <<>>],
     floats        |-> [h_clamped |-> {}, energy_offset |-> FALSE]]

\* as clamp_edge, folding the coupling without the sign of the value
clamp_edge_unscaled(model, variable, value, edge) ==
    IF variable \notin {edge[1], edge[2]} THEN model
    ELSE LET coupling  == model.J_clamped[edge]
             variable2 == IF edge[1] = variable THEN edge[2] ELSE edge[1]
             folded ==
                 IF variable2 \notin DOMAIN model.clamped
                 THEN [model EXCEPT
                         !.h_clamped =
                            DictSet(zerodefaultdict_getitem(@, variable2).dict,
                                variable2,
                                zerodefaultdict_getitem(@, variable2).value
                                  + coupling),
                         !.order.h_clamped = order_set(@, variable2),
                         !.floats.h_clamped =
                            IF variable2 \in DOMAIN model.h_clamped THEN @
                            ELSE @ \cup {variable2}]
                 ELSE [model EXCEPT !.energy_offset =
                         @ + model.clamped[variable2] * coupling * value]
         IN  [folded EXCEPT !.J_clamped = symmetric_pop(@, edge).dict,
                            !.order.J_clamped = order_del(@, edge)]

\* as clamp_edge, leaving the edge in J_clamped
clamp_edge_kept(model, variable, value, edge) ==
    IF variable \notin {edge[1], edge[2]} THEN model
    ELSE LET coupling  == model.J_clamped[edge]
             variable2 == IF edge[1] = variable THEN edge[2] ELSE edge[1]
             folded ==
                 IF variable2 \notin DOMAIN model.clamped
                 THEN [model EXCEPT
                         !.h_clamped =
                            DictSet(zerodefaultdict_getitem(@, variable2).dict,
                                variable2,
                                zerodefaultdict_getitem(@, variable2).value
                                  + coupling * value),
                         !.order.h_clamped = order_set(@, variable2),
                         !.floats.h_clamped =
                            IF variable2 \in DOMAIN model.h_clamped THEN @
                            ELSE @ \cup {variable2}]
                 ELSE [model EXCEPT !.energy_offset =
                         @ + model.clamped[variable2] * coupling * value]
         IN  folded

\* one iteration of the loop of clamp over the items of J_clamped: the value
\* read for a key h_clamped does not hold is the float 0.0, and the sum
\* stored is a float
clamp_edge(model, variable, value, edge) ==
    IF variable \notin {edge[1], edge[2]} THEN model
    ELSE LET coupling  == model.J_clamped[edge]
             variable2 == IF edge[1] = variable THEN edge[2] ELSE edge[1]
             folded ==
                 IF variable2 \notin DOMAIN model.clamped
                 THEN [model EXCEPT
                         !.h_clamped =
                            DictSet(zerodefaultdict_getitem(@, variable2).dict,
                                variable2,
                                zerodefaultdict_getitem(@, variable2).value
                                  + coupling * value),
                         !.order.h_clamped = order_set(@, variable2),
                         !.floats.h_clamped =
                            IF variable2 \in DOMAIN model.h_clamped THEN @
                            ELSE @ \cup {variable2}]
                 ELSE [model EXCEPT !.energy_offset =
                         @ + model.clamped[variable2] * coupling * value]
         IN  [folded EXCEPT !.J_clamped = symmetric_pop(@, edge).dict,
                            !.order.J_clamped = order_del(@, edge)]

\* the loop of clamp, over the edges listed before the loop started, in the
\* order of list(self.J_clamped.items())
RECURSIVE clamp_edges(_, _, _, _)
clamp_edges(model, variable, value, edges) ==
    IF edges = <<>> THEN model
    ELSE clamp_edges(clamp_edge(model, variable, value, Head(edges)),
                     variable, value, Tail(edges))

\* clamp, lines 62-69: drop the variable from the active set, record its
\* value, fold its bias into energy_offset
clamp_start_keep_active(model, variable, value) ==
    LET popped == zerodefaultdict_pop(model.h_clamped, variable, 0)
    IN  [model EXCEPT
            !.clamped       = DictSet(@, variable, value),
            !.energy_offset = @ + popped.value * value,
            !.h_clamped     = popped.dict,
            !.order.clamped   = order_set(@, variable),
            !.order.h_clamped = order_del(@, variable),
            !.floats.energy_offset =
               @ \/ variable \in model.floats.h_clamped,
            !.floats.h_clamped = @ \ {variable}]

\* as clamp_start, folding the bias without the sign of the value
clamp_start_unsigned(model, variable, value) ==
    LET popped == zerodefaultdict_pop(model.h_clamped, variable, 0)
    IN  [model EXCEPT
            !.variables     = @ \ {variable},
            !.slots         = set_discard(@, variable),
            !.clamped       = DictSet(@, variable, value),
            !.energy_offset = @ + popped.value,
            !.h_clamped     = popped.dict,
            !.order.clamped   = order_set(@, variable),
            !.order.h_clamped = order_del(@, variable),
            !.floats.energy_offset =
               @ \/ variable \in model.floats.h_clamped,
            !.floats.h_clamped = @ \ {variable}]

clamp_start(model, variable, value) ==
    LET popped == zerodefaultdict_pop(model.h_clamped, variable, 0)
    IN  [model EXCEPT
            !.variables     = @ \ {variable},
            !.slots         = set_discard(@, variable),
            !.clamped       = DictSet(@, variable, value),
            !.energy_offset = @ + popped.value * value,
            !.h_clamped     = popped.dict,
            !.order.clamped   = order_set(@, variable),
            !.order.h_clamped = order_del(@, variable),
            !.floats.energy_offset =
               @ \/ variable \in model.floats.h_clamped,
            !.floats.h_clamped = @ \ {variable}]

\* as clamp_apply, with h_clamped and J_clamped being the very objects h, J
clamp_apply_shared(model, variable, value) ==
    LET after == clamp_edges(clamp_start(model, variable, value),
                             variable, value, model.order.J_clamped)
    IN  [after EXCEPT !.h = after.h_clamped, !.J = after.J_clamped,
                      !.order.h = after.order.h_clamped,
                      !.order.J = after.order.J_clamped]

\* clamp, lines 62-82: the changes a successful clamp makes
clamp_apply(model, variable, value) ==
    clamp_edges(clamp_start(model, variable, value),
                variable, value, model.order.J_clamped)

\* as clamp, without the test for an already clamped variable
clamp_no_reclamp_test(model, variable, value) ==
    IF variable \notin model.variables
    THEN [model |-> model, result |-> "unknown"]
    ELSE IF value \notin {1, -1}
    THEN [model |-> model, result |-> "invalid"]
    ELSE [model  |-> clamp_apply(model, variable, value), result |-> "done"]

\* as clamp, with the test of the value made first
clamp_value_first(model, variable, value) ==
    IF value \notin {1, -1}
    THEN [model |-> model, result |-> "invalid"]
    ELSE IF variable \in DOMAIN model.clamped
    THEN IF value # model.clamped[variable]
         THEN [model |-> model, result |-> "conflict"]
         ELSE [model |-> model, result |-> "noop"]
    ELSE IF variable \notin model.variables
    THEN [model |-> model, result |-> "unknown"]
    ELSE [model  |-> clamp_apply(model, variable, value), result |-> "done"]

\* as clamp, testing the value only after the variable was dropped from the
\* active set and recorded
clamp_validates_last(model, variable, value) ==
    IF variable \in DOMAIN model.clamped
    THEN IF value # model.clamped[variable]
         THEN [model |-> model, result |-> "conflict"]
         ELSE [model |-> model, result |-> "noop"]
    ELSE IF variable \notin model.variables
    THEN [model |-> model, result |-> "unknown"]
    ELSE IF value \notin {1, -1}
    THEN [model  |-> clamp_start(model, variable, value),
          result |-> "invalid"]
    ELSE [model  |-> clamp_apply(model, variable, value), result |-> "done"]

\* IsingModel.clamp(variable, value): the model after the call and how the
\* call ended: "done" (clamped), "noop" (already clamped to this value) or
\* the ValueError raised: "conflict", "unknown", "invalid"
clamp(model, variable, value) ==
    IF variable \in DOMAIN model.clamped
    THEN IF value # model.clamped[variable]
         THEN [model |-> model, result |-> "conflict"]
         ELSE [model |-> model, result |-> "noop"]
    ELSE IF variable \notin model.variables
    THEN [model |-> model, result |-> "unknown"]
    ELSE IF value \notin {1, -1}
    THEN [model |-> model, result |-> "invalid"]
    ELSE [model  |-> clamp_apply(model, variable, value), result |-> "done"]

----------------------------------------------------------------------------
(* data.py: IsingSample.  A sample is a record of its attributes; a        *)
(* constructor call that raises yields a record with the error only.       *)

\* IsingSample.__init__, lines 238-243: a tuple or list is zipped with the
\* sorted active variables; zip stops at the shorter of the two
assignment_from_sequence(model, values) ==
    LET variable_keys == sorted(model.variables)
        n == IF Len(values) < Len(variable_keys)
             THEN Len(values) ELSE Len(variable_keys)
    IN  [key \in {variable_keys[r] : r \in 1..n} |->
            values[CHOOSE r \in 1..n : variable_keys[r] = key]]

\* as expand_sample, without filling in the clamped values
expand_sample_free_only(model, sample) == sample

\* IsingSample.expand_sample
expand_sample(model, sample) == DictUpdate(sample, model.clamped)

\* IsingSample.compute_energy, on the stored (expanded) assignment
compute_energy(model, assignment) ==
    model.energy_offset
    + SumOver(DOMAIN model.J_clamped,
              [key \in DOMAIN model.J_clamped |->
                  model.J_clamped[key] * assignment[key[1]] * assignment[key[2]]])
    + SumOver(DOMAIN model.h_clamped,
              [key \in DOMAIN model.h_clamped |->
                  assignment[key] * model.h_clamped[key]])

\* whether the energy compute_energy returns is a float: it starts from
\* energy_offset and adds a product with every value of h_clamped
compute_energy_float(model) ==
    model.floats.energy_offset \/ model.floats.h_clamped # {}

\* as IsingSample_init, looking for unexpected variables first
IsingSample_init_extra_first(model, assignment, occurences) ==
    IF (DOMAIN assignment) \ model.variables # {}
    THEN [error |-> "unexpected"]
    ELSE IF model.variables \ DOMAIN assignment # {}
    THEN [error |-> "missing"]
    ELSE [error      |-> "none",
          assignment |-> expand_sample(model, assignment),
          occurences |-> occurences,
          energy     |-> compute_energy(model,
                                        expand_sample(model, assignment)),
          energy_float |-> compute_energy_float(model)]

\* IsingSample.__init__ from a dictionary, lines 245-266
IsingSample_init(model, assignment, occurences) ==
    IF model.variables \ DOMAIN assignment # {}
    THEN [error |-> "missing"]
    ELSE IF (DOMAIN assignment) \ model.variables # {}
    THEN [error |-> "unexpected"]
    ELSE [error      |-> "none",
          assignment |-> expand_sample(model, assignment),
          occurences |-> occurences,
          energy     |-> compute_energy(model,
                                        expand_sample(model, assignment)),
          energy_float |-> compute_energy_float(model)]

\* IsingSample.__init__ from a tuple or a list
IsingSample_init_sequence(model, values, occurences) ==
    IsingSample_init(model, assignment_from_sequence(model, values),
                     occurences)

\* the outcome of a comparison: what it returns, or the exception it raises
Bool(b) == IF b THEN "True" ELSE "False"

\* cmp(a, b) of two dictionaries with integer keys and values as Python 2
\* defines it: by length first, then by the smallest key at which one
\* differs from the other, then by the values under that key
dict_cmp_py2(a, b) ==
    LET adiff == {k \in DOMAIN a : k \notin DOMAIN b \/ a[k] # b[k]}
        bdiff == {k \in DOMAIN b : k \notin DOMAIN a \/ a[k] # b[k]}
        akey  == CHOOSE k \in adiff : \A x \in adiff : k <= x
        bkey  == CHOOSE k \in bdiff : \A x \in bdiff : k <= x
    IN  IF Cardinality(DOMAIN a) < Cardinality(DOMAIN b) THEN -1
        ELSE IF Cardinality(DOMAIN a) > Cardinality(DOMAIN b) THEN 1
        ELSE IF adiff = {} THEN 0
        ELSE IF akey < bkey THEN -1
        ELSE IF akey > bkey THEN 1
        ELSE IF a[akey] < b[bkey] THEN -1
        ELSE IF a[akey] > b[bkey] THEN 1
        ELSE 0

\* self.assignment < other.assignment on two hashabledicts: Python 2 orders
\* dictionaries, Python 3 raises TypeError
hashabledict_lt(a, b, py) ==
    IF py = 2 THEN Bool(dict_cmp_py2(a, b) < 0) ELSE "TypeError"

\* IsingSample.__gt__
IsingSample_gt(self, other, py) ==
    IF self.energy # other.energy
    THEN Bool(self.energy < other.energy)
    ELSE hashabledict_lt(self.assignment, other.assignment, py)

\* IsingSample.__eq__
IsingSample_eq(self, other) == Bool(self.assignment = other.assignment)

\* IsingSample.__lt__ as functools.total_ordering derives it from __gt__:
\* not (self > other) and self != other
IsingSample_lt(self, other, py) ==
    IF IsingSample_gt(self, other, py) = "TypeError" THEN "TypeError"
    ELSE Bool(/\ IsingSample_gt(self, other, py) = "False"
              /\ IsingSample_eq(self, other) = "False")

----------------------------------------------------------------------------
(* The models IsingModel is constructed from.                              *)

OrderedPairs == {key \in VarIds \X VarIds : key[1] # key[2]}

SeqsUpTo(S, n) == UNION {[1..k -> S] : k \in 0..n}

\* key x is not after key y in the ascending order of the sorted keys
pair_le(x, y) ==
    \/ sorted_key(x)[1] < sorted_key(y)[1]
    \/ /\ sorted_key(x)[1] = sorted_key(y)[1]
       /\ sorted_key(x)[2] <= sorted_key(y)[2]

\* the J dictionaries: at most MaxJ items, the keys in either orientation,
\* the items in any order
AnyOrderJInputs ==
    SeqsUpTo({<<key, JCoef(key)>> : key \in OrderedPairs}, MaxJ)

\* the J dictionaries whose items are in ascending order of the pairs
JInputs ==
    {J \in AnyOrderJInputs :
        \A r \in 1..(Len(J) - 1) : pair_le(J[r][1], J[r + 1][1])}

\* the h dictionaries of at most n items, the items in any order
AnyOrderHInputs(n) ==
    {h \in SeqsUpTo({<<k, HCoef(k)>> : k \in VarIds}, n) :
        \A r, t \in 1..Len(h) : h[r][1] = h[t][1] => r = t}

\* the h dictionaries: at most MaxH items, in ascending order of the keys
HInputs ==
    {h \in AnyOrderHInputs(MaxH) :
        \A r \in 1..(Len(h) - 1) : h[r][1] < h[r + 1][1]}

\* the dictionaries a symmetriczerodefaultdict is constructed from
DictInputs == SeqsUpTo(OrderedPairs \X DictVals, MaxJ)

NoClamp == [op |-> "init", variable |-> 0, value |-> 0, result |-> "none"]
NoSampleCall ==
    [op |-> "none", mapping |-> EmptyDict, values |-> <<>>, occurences |-> 0,
     sample |-> [error |-> "none"]]

NoCmp ==
    [op |-> "none", a |-> [error |-> "none"], b |-> [error |-> "none"],
     lt_ab |-> "False", lt_ba |-> "False", gt_ab |-> "False",
     eq_ab |-> "False"]
NoDictCall == [op |-> "none"]
NoPoolCall == [op |-> "none", error |-> "none"]
NoCopy == [op |-> "none"]
NoSer == [op |-> "none"]

\* no SamplePool exists yet, nothing was copied or serialized
NoPool == heap = <<>> /\ added = EmptyDict /\ pcall = NoPoolCall
NoCopySer == copied = NoCopy /\ ser = NoSer
NoDwave == [op |-> "none"]
NoGibbs == [op |-> "none"]
NoParallel == [op |-> "none"]
\* nothing was exported, no sampler runs
NoExportRun == exported = NoDwave /\ g = NoGibbs /\ par = NoParallel

\* the models clamp is called on are models over these variables
ClampVars == {0, 1, 2}

InitModel ==
    /\ \E J \in JInputs, h \in HInputs :
          /\ IsingModel_init(J, h).variables \subseteq ClampVars
          /\ m = IsingModel_init(J, h)
    /\ constructed = [J |-> m.J, h |-> m.h]
    /\ last = NoClamp

----------------------------------------------------------------------------
(* Specification Spec: a model is constructed and clamp is called on it.   *)

Init ==
    /\ InitModel
    /\ call = NoSampleCall
    /\ cmp = NoCmp
    /\ py_major = 3
    /\ d = EmptyDict
    /\ written = {}
    /\ dcall = NoDictCall
    /\ NoPool
    /\ NoCopySer
    /\ NoExportRun

\* model.clamp(variable, value)
Clamp(variable, value) ==
    /\ m' = clamp(m, variable, value).model
    /\ last' = [op |-> "clamp", variable |-> variable, value |-> value,
                result |-> clamp(m, variable, value).result]
    /\ UNCHANGED <<constructed, call, cmp, py_major, d, written, dcall,
                 heap, added, pcall, copied, ser,
                   exported, g, par>>

Next == \E variable \in VarIds, value \in ClampVals : Clamp(variable, value)

Spec == Init /\ [][Next]_vars

----------------------------------------------------------------------------
(* Properties of IsingModel.clamp, checked under Spec.                     *)

\* every variable of the model as given: keys(h) and the endpoints of J
OriginalVariables == (DOMAIN m.h) \cup elements(m.J)

\* the model as constructed from the original J and h, nothing clamped
Unclamped ==
    [m EXCEPT !.J_clamped = m.J, !.h_clamped = m.h, !.clamped = EmptyDict,
              !.energy_offset = 0, !.variables = OriginalVariables,
              !.slots = variables_table(m.order.J, m.order.h),
              !.order.J_clamped = m.order.J, !.order.h_clamped = m.order.h,
              !.order.clamped = <<>>,
              !.floats = [h_clamped |-> {}, energy_offset |-> FALSE]]

\* the full assignments that agree with the clamped values
ConsistentAssignments ==
    {a \in [OriginalVariables -> Spins] :
        \A v \in DOMAIN m.clamped : a[v] = m.clamped[v]}

Restrict(f, S) == [x \in S |-> f[x]]

\* C1: clamp equivalence.  Every full assignment that agrees with the
\* clamped values has the same energy, whether computed from the original
\* J and h or by a Sample of the clamped model; when every variable is
\* clamped, energy_offset alone is the original energy.
C1_ClampEquivalence ==
    /\ \A a \in ConsistentAssignments :
          IsingSample_init(m, Restrict(a, m.variables), 1).energy
            = compute_energy(Unclamped, a)
    /\ m.variables = {} =>
          m.energy_offset = compute_energy(Unclamped, m.clamped)

\* two variables are clamped, a coupling between them and a coupling to a
\* free variable have been folded
C1_Witness ==
    /\ last.result = "done"
    /\ \E e1, e2 \in DOMAIN m.J :
          /\ e1[1] \in DOMAIN m.clamped /\ e1[2] \in DOMAIN m.clamped
          /\ Cardinality({e2[1], e2[2]} \cap m.variables) = 1
    /\ m.energy_offset # 0

\* C2: original immutability.  After construction and any sequence of clamp
\* calls, J and h are what they were at construction.
C2_OriginalImmutable ==
    /\ m.J = constructed.J
    /\ m.h = constructed.h

\* a clamp has changed both reduced views
C2_Witness ==
    /\ last.result = "done"
    /\ m.J_clamped # m.J
    /\ m.h_clamped # m.h

\* C3: clamping an already clamped variable to the same value succeeds and
\* changes nothing; clamping it to the opposite value fails with the
\* conflicting-clamp error.
C3_Reclamp ==
    [][(last'.op = "clamp" /\ last'.variable \in DOMAIN m.clamped) =>
          /\ last'.value = m.clamped[last'.variable] =>
                (m' = m /\ last'.result = "noop")
          /\ last'.value = -m.clamped[last'.variable] =>
                (m' = m /\ last'.result = "conflict")]_vars

\* a clamped variable has been clamped again to the same value
C3_Witness ==
    /\ last.result = "noop"
    /\ last.variable \in DOMAIN m.clamped
    /\ m.clamped[last.variable] = last.value

\* C4 as stated: a value outside {-1, +1} always gives the invalid-value
\* error, whatever the variable is.
C4_InvalidValueFirst ==
    (last.op = "clamp" /\ last.value \notin {-1, 1}) => last.result = "invalid"

\* C4 as amended: a value outside {-1, +1} always makes clamp fail; the
\* error is the conflicting-clamp error when the variable is already clamped,
\* the unknown-variable error when it is not in the model, and the
\* invalid-value error only when the variable is active.
C4_InvalidValueFails ==
    [][(last'.op = "clamp" /\ last'.value \notin {-1, 1}) =>
          last'.result =
             IF last'.variable \in DOMAIN m.clamped THEN "conflict"
             ELSE IF last'.variable \notin m.variables THEN "unknown"
             ELSE "invalid"]_vars

\* an active variable was clamped to an invalid value, in a model that also
\* has a clamped variable
C4_Witness ==
    /\ last.op = "clamp"
    /\ last.value \notin {-1, 1}
    /\ last.result = "invalid"
    /\ last.variable \in m.variables
    /\ DOMAIN m.clamped # {}

C5_Partition ==
    /\ m.variables \cap DOMAIN m.clamped = {}
    /\ m.variables \cup DOMAIN m.clamped = OriginalVariables

C5_Step ==
    /\ m'.variables \subseteq m.variables
    /\ \A v \in DOMAIN m.clamped :
          v \in DOMAIN m'.clamped /\ m'.clamped[v] = m.clamped[v]
    /\ m'.variables # m.variables =>
          /\ last'.result = "done"
          /\ m'.variables = m.variables \ {last'.variable}
          /\ last'.variable \in m.variables

\* C5: the active variables and the clamped variables are disjoint and
\* together are the variables of the original h and J; a variable leaves
\* the active set only by a successful clamp and never comes back.
C5_ActiveClampedPartition == []C5_Partition /\ [][C5_Step]_vars

\* a variable has been clamped and another one is still active
C5_Witness ==
    /\ last.result = "done"
    /\ m.variables # {}
    /\ DOMAIN m.clamped # {}

----------------------------------------------------------------------------
(* Specification SpecDict: a symmetriczerodefaultdict is constructed from  *)
(* a dictionary and then written, popped and read through keys given in    *)
(* either order.                                                           *)

AnyKeys == VarIds \X VarIds

UnorderedPair(key) == {key[1], key[2]}

reversed_key(key) == <<key[2], key[1]>>

InitDict ==
    /\ m = IsingModel_init(<<>>, <<>>)
    /\ constructed = [J |-> m.J, h |-> m.h]
    /\ last = NoClamp
    /\ call = NoSampleCall
    /\ cmp = NoCmp
    /\ py_major = 3
    /\ \E items \in DictInputs :
          /\ d = symmetric_update(EmptyDict, items)
          /\ written = {UnorderedPair(items[r][1]) : r \in 1..Len(items)}
    /\ dcall = [op |-> "init", key |-> <<0, 0>>, value |-> 0,
                error |-> "none"]
    /\ NoPool
    /\ NoCopySer
    /\ NoExportRun

\* d[key] = value; the dictionary is kept to at most MaxJ entries
DictSetItem(key, value) ==
    /\ Cardinality(DOMAIN symmetric_setitem(d, key, value).dict) <= MaxJ
    /\ d' = symmetric_setitem(d, key, value).dict
    /\ written' = IF symmetric_setitem(d, key, value).error = "none"
                  THEN written \cup {UnorderedPair(key)} ELSE written
    /\ dcall' = [op |-> "setitem", key |-> key, value |-> value,
                 error |-> symmetric_setitem(d, key, value).error]
    /\ UNCHANGED <<m, constructed, last, call, cmp, py_major,
                 heap, added, pcall, copied, ser,
                   exported, g, par>>

\* d.pop(key)
DictPop(key) ==
    /\ d' = symmetric_pop(d, key).dict
    /\ dcall' = [op |-> "pop", key |-> key,
                 value |-> symmetric_pop(d, key).value,
                 error |-> symmetric_pop(d, key).error]
    /\ UNCHANGED <<m, constructed, last, call, cmp, py_major, written,
                 heap, added, pcall, copied, ser,
                   exported, g, par>>

\* d[key]
DictGetItem(key) ==
    /\ d' = symmetric_getitem(d, key).dict
    /\ dcall' = [op |-> "getitem", key |-> key,
                 value |-> symmetric_getitem(d, key).value, error |-> "none"]
    /\ UNCHANGED <<m, constructed, last, call, cmp, py_major, written,
                 heap, added, pcall, copied, ser,
                   exported, g, par>>

NextDict ==
    \/ \E key \in AnyKeys, value \in DictVals : DictSetItem(key, value)
    \/ \E key \in AnyKeys : DictPop(key)
    \/ \E key \in AnyKeys : DictGetItem(key)

SpecDict == InitDict /\ [][NextDict]_vars

\* in every state: both key orders read the same value, d.get(key) reads
\* what d[key] reads, a pair never written reads as 0, and the pair last
\* written reads as the value written
C6_Reads ==
    /\ \A key \in AnyKeys :
          /\ symmetric_getitem(d, key).value
               = symmetric_getitem(d, reversed_key(key)).value
          /\ symmetric_get(d, key, 0) = symmetric_getitem(d, key).value
          /\ UnorderedPair(key) \notin written =>
                symmetric_getitem(d, key).value = 0
    /\ (dcall.op = "setitem" /\ dcall.error = "none") =>
          /\ symmetric_getitem(d, dcall.key).value = dcall.value
          /\ symmetric_getitem(d, reversed_key(dcall.key)).value = dcall.value

\* the entries of dict under keys other than key and its reverse
OtherPairs(dict, key) ==
    [x \in (DOMAIN dict) \ {key, reversed_key(key)} |-> dict[x]]

\* in every step: a read changes nothing and returns the value of the pair;
\* a pop through one order returns and removes the entry seen through the
\* other order; a write or pop leaves every other pair as it was
C6_Step ==
    /\ dcall'.op = "getitem" =>
          /\ d' = d
          /\ dcall'.value = symmetric_get(d, reversed_key(dcall'.key), 0)
    /\ (dcall'.op = "pop" /\ dcall'.error = "none") =>
          /\ dcall'.value = symmetric_get(d, reversed_key(dcall'.key), 0)
          /\ sorted_key(dcall'.key) \in DOMAIN d
          /\ DOMAIN d' = (DOMAIN d) \ {dcall'.key, reversed_key(dcall'.key)}
    /\ (dcall'.op = "pop" /\ dcall'.error # "none") =>
          /\ d' = d
          /\ DOMAIN d \cap {dcall'.key, reversed_key(dcall'.key)} = {}
    /\ (dcall'.op = "setitem" /\ dcall'.error = "none") =>
          Cardinality(DOMAIN d' \cap {dcall'.key, reversed_key(dcall'.key)})
            = 1
    /\ dcall'.op \in {"setitem", "pop"} =>
          OtherPairs(d', dcall'.key) = OtherPairs(d, dcall'.key)

\* C6: symmetric coupling matrix.  After any writes and pops through either
\* key order, (i, j) and (j, i) read the same value, a write or pop through
\* (j, i) acts on the entry seen through (i, j), a pair never written reads
\* as 0.0, and reading a missing pair creates no entry.
C6_SymmetricMatrix == []C6_Reads /\ [][C6_Step]_vars

\* an entry written through one key order has been popped through the other
C6_Witness ==
    /\ dcall.op = "pop"
    /\ dcall.error = "none"
    /\ dcall.key[1] > dcall.key[2]
    /\ dcall.value # 0
    /\ UnorderedPair(dcall.key) \in written
    /\ DOMAIN d # {}

----------------------------------------------------------------------------
(* Specification SpecSample: IsingSample is constructed, from a dictionary *)
(* or from a sequence, for a model that has been constructed and clamped.  *)

\* the dictionaries with keys among S and values among the spins
PartialAssignments(S) == UNION {[D -> Spins] : D \in SUBSET S}

\* model.clamp(v, c[v]) for every key v of c, in ascending order
RECURSIVE ClampAll(_, _)
ClampAll(model, c) ==
    IF DOMAIN c = {} THEN model
    ELSE LET v == CHOOSE x \in DOMAIN c : \A y \in DOMAIN c : x <= y
         IN  ClampAll(clamp(model, v, c[v]).model, DictDel(c, v))

\* the models IsingModel(J, h) constructs from the input dictionaries
Models == {IsingModel_init(J, h) : J \in JInputs, h \in HInputs}

\* the value variable v is clamped to when the clamps have sign s
ClampSign(v, s) == IF v % 2 = 0 THEN s ELSE -s

\* the clamps made on a model before it is sampled: any of its variables,
\* neighbouring variables at opposite values, in either sign
ClampInputs(model) ==
    {[v \in D |-> ClampSign(v, s)] : D \in SUBSET model.variables, s \in Spins}

\* a model is constructed and some of its variables are clamped
InitClampedModel ==
    /\ \E model \in Models :
          \E c \in ClampInputs(model) :
             /\ m = ClampAll(model, c)
    /\ constructed = [J |-> m.J, h |-> m.h]
    /\ last = NoClamp

InitSample ==
    /\ InitClampedModel
    /\ call = NoSampleCall
    /\ cmp = NoCmp
    /\ py_major = 3
    /\ d = EmptyDict
    /\ written = {}
    /\ dcall = NoDictCall
    /\ NoPool
    /\ NoCopySer
    /\ NoExportRun

\* IsingSample(m, mapping) with a dictionary, occurences left at its default
NewSampleFromDict(mapping) ==
    /\ call.op = "none"
    /\ call' = [op |-> "dict", mapping |-> mapping, values |-> <<>>,
                occurences |-> 1,
                sample |-> IsingSample_init(m, mapping, 1)]
    /\ UNCHANGED <<m, constructed, last, cmp, py_major, d, written, dcall,
                 heap, added, pcall, copied, ser,
                   exported, g, par>>

\* IsingSample(m, values) with a tuple or a list
NewSampleFromSequence(values) ==
    /\ call.op = "none"
    /\ call' = [op |-> "sequence", mapping |-> EmptyDict, values |-> values,
                occurences |-> 1,
                sample |-> IsingSample_init_sequence(m, values, 1)]
    /\ UNCHANGED <<m, constructed, last, cmp, py_major, d, written, dcall,
                 heap, added, pcall, copied, ser,
                   exported, g, par>>

\* one constructor call is made in a behaviour
NextSample ==
    /\ call.op = "none"
    /\ \/ \E mapping \in PartialAssignments(VarIds) :
             NewSampleFromDict(mapping)
       \/ \E values \in SeqsUpTo(Spins, MaxLen) :
             NewSampleFromSequence(values)

SpecSample == InitSample /\ [][NextSample]_vars

\* C7: sample expansion.  Every Sample constructed for a clamped model has
\* an assignment over every original variable, with each clamped variable at
\* its clamped value, whatever was supplied; an assignment for exactly the
\* free variables is accepted.
C7_SampleExpansion ==
    /\ call.sample.error = "none" /\ call.op # "none" =>
          /\ DOMAIN call.sample.assignment = OriginalVariables
          /\ \A v \in DOMAIN m.clamped :
                call.sample.assignment[v] = m.clamped[v]
          /\ \A v \in m.variables : call.sample.assignment[v] \in Spins
    /\ (call.op = "dict" /\ DOMAIN call.mapping = m.variables) =>
          call.sample.error = "none"
    /\ (call.op = "sequence" /\ Len(call.values) = Cardinality(m.variables))
          => call.sample.error = "none"

\* a Sample was made from a sequence as long as the original variable set,
\* for a model with a clamped and a free variable
C7_Witness ==
    /\ call.op = "sequence"
    /\ call.sample.error = "none"
    /\ DOMAIN m.clamped # {}
    /\ m.variables # {}
    /\ Len(call.values) = Cardinality(OriginalVariables)

\* C8 as stated: a dictionary is accepted only when its keys are the active
\* variables; an absent active variable gives the missing-variables error
\* and a key that is not an active variable gives the unexpected-variables
\* error.
C8_MappingErrors ==
    call.op = "dict" =>
       /\ (call.sample.error = "none") = (DOMAIN call.mapping = m.variables)
       /\ m.variables \ DOMAIN call.mapping # {} =>
             call.sample = [error |-> "missing"]
       /\ (DOMAIN call.mapping) \ m.variables # {} =>
             call.sample = [error |-> "unexpected"]

\* C8 as amended: the unexpected-variables error is raised only when no
\* active variable is absent; when a variable is absent and another key is
\* unexpected, the error is the missing-variables error.
C8_MappingErrorsMissingFirst ==
    call.op = "dict" =>
       /\ (call.sample.error = "none") = (DOMAIN call.mapping = m.variables)
       /\ m.variables \ DOMAIN call.mapping # {} =>
             call.sample = [error |-> "missing"]
       /\ ( /\ (DOMAIN call.mapping) \ m.variables # {}
            /\ m.variables \subseteq DOMAIN call.mapping ) =>
             call.sample = [error |-> "unexpected"]

\* a dictionary lacked an active variable and had a clamped variable as key
C8_Witness ==
    /\ call.op = "dict"
    /\ m.variables \ DOMAIN call.mapping # {}
    /\ (DOMAIN call.mapping) \cap (DOMAIN m.clamped) # {}
    /\ call.sample.error = "missing"

\* C9: a sequence is accepted only when its length is the number of free
\* variables; an accepted sequence gives its r-th value to the r-th smallest
\* active variable.
C9_SequenceLength ==
    call.op = "sequence" =>
       /\ Len(call.values) # Cardinality(m.variables) =>
             call.sample.error # "none"
       /\ call.sample.error = "none" =>
             \A r \in 1..Cardinality(m.variables) :
                call.sample.assignment[sorted(m.variables)[r]]
                  = call.values[r]

----------------------------------------------------------------------------
(* Specification SpecOrder: two Samples of a constructed and clamped model *)
(* are compared, under either major version of the interpreter.            *)

PyVersions == {2, 3}

InitOrder ==
    /\ InitClampedModel
    /\ call = NoSampleCall
    /\ cmp = NoCmp
    /\ py_major \in PyVersions
    /\ d = EmptyDict
    /\ written = {}
    /\ dcall = NoDictCall
    /\ NoPool
    /\ NoCopySer
    /\ NoExportRun

\* a = IsingSample(m, x), b = IsingSample(m, y); a < b, b < a, a > b, a == b
Compare(x, y) ==
    /\ cmp.op = "none"
    /\ LET a == IsingSample_init(m, x, 1)
           b == IsingSample_init(m, y, 1)
       IN  cmp' = [op    |-> "compare", a |-> a, b |-> b,
                   lt_ab |-> IsingSample_lt(a, b, py_major),
                   lt_ba |-> IsingSample_lt(b, a, py_major),
                   gt_ab |-> IsingSample_gt(a, b, py_major),
                   eq_ab |-> IsingSample_eq(a, b)]
    /\ UNCHANGED <<m, constructed, last, call, py_major, d, written, dcall,
                 heap, added, pcall, copied, ser,
                   exported, g, par>>

\* one comparison is made in a behaviour
NextOrder ==
    /\ cmp.op = "none"
    /\ \E x, y \in [m.variables -> Spins] : Compare(x, y)

SpecOrder == InitOrder /\ [][NextOrder]_vars

\* C10: the Sample order is a strict total order.  Of two Samples with
\* different assignments exactly one is less than the other, also when their
\* energies are equal; the order is transitive; the Sample of higher energy
\* is the lesser one.
C10_StrictTotalOrder ==
    cmp.op = "compare" =>
       /\ cmp.a.assignment # cmp.b.assignment =>
             (cmp.lt_ab = "True") # (cmp.lt_ba = "True")
       /\ cmp.a.energy > cmp.b.energy => cmp.lt_ab = "True"
       /\ \A z \in [m.variables -> Spins] :
             ( /\ cmp.lt_ab = "True"
               /\ IsingSample_lt(cmp.b, IsingSample_init(m, z, 1), py_major)
                    = "True" ) =>
             IsingSample_lt(cmp.a, IsingSample_init(m, z, 1), py_major)
               = "True"

----------------------------------------------------------------------------
(* heapq as SamplePool uses it: positions are Python's, counted from 0.    *)
(* Every function gives the list it leaves behind and the exception a      *)
(* comparison raised, if one did.                                          *)

\* hashabledict.as_tuple: the values in ascending key order
as_tuple(assignment) ==
    [r \in 1..Cardinality(DOMAIN assignment) |->
        assignment[sorted(DOMAIN assignment)[r]]]

\* x < y for two items of a list heapq works on: two IsingSamples, or two of
\* the (elem, order) tuples of heapq.nlargest, which compare their first
\* unequal components
item_lt(x, y, py) ==
    IF "order" \in DOMAIN x
    THEN IF IsingSample_eq(x.elem, y.elem) = "True"
         THEN Bool(x.order < y.order)
         ELSE IsingSample_lt(x.elem, y.elem, py)
    ELSE IsingSample_lt(x, y, py)

\* the list with the items at positions i and j exchanged
swap(list, i, j) ==
    [r \in 1..Len(list) |->
        IF r = i + 1 THEN list[j + 1]
        ELSE IF r = j + 1 THEN list[i + 1] ELSE list[r]]

\* heapq._siftdown: the item at pos rises while it is less than its parent
RECURSIVE siftdown(_, _, _, _)
siftdown(list, startpos, pos, py) ==
    IF pos <= startpos
    THEN [heap |-> list, pos |-> pos, error |-> "none"]
    ELSE LET parentpos == (pos - 1) \div 2
             less == item_lt(list[pos + 1], list[parentpos + 1], py)
         IN  IF less = "TypeError"
             THEN [heap |-> list, pos |-> pos, error |-> "TypeError"]
             ELSE IF less = "False"
             THEN [heap |-> list, pos |-> pos, error |-> "none"]
             ELSE siftdown(swap(list, pos, parentpos), startpos, parentpos,
                           py)

\* heapq.heappush: the item is appended first and sifted afterwards
heappush(list, item, py) == siftdown(Append(list, item), 0, Len(list), py)

\* heapq._siftup: the smaller child rises from pos down to a leaf, then the
\* item that was at pos is sifted up from there
RECURSIVE siftup_from(_, _, _, _)
siftup_from(list, startpos, pos, py) ==
    LET endpos == Len(list)
        left == 2 * pos + 1
        less == IF left + 1 < endpos
                THEN item_lt(list[left + 1], list[left + 2], py)
                ELSE "True"
        childpos == IF less = "True" THEN left ELSE left + 1
    IN  IF pos >= endpos \div 2
        THEN siftdown(list, startpos, pos, py)
        ELSE IF less = "TypeError"
        THEN [heap |-> list, pos |-> pos, error |-> "TypeError"]
        ELSE siftup_from(swap(list, pos, childpos), startpos, childpos, py)

siftup(list, pos, py) == siftup_from(list, pos, pos, py)

\* heapq.heapify: siftup at every position that has a child, last one first
RECURSIVE heapify_from(_, _, _)
heapify_from(list, i, py) ==
    IF i < 0 THEN [heap |-> list, error |-> "none"]
    ELSE LET sifted == siftup(list, i, py)
         IN  IF sifted.error # "none"
             THEN [heap |-> sifted.heap, error |-> sifted.error]
             ELSE heapify_from(sifted.heap, i - 1, py)

heapify(list, py) == heapify_from(list, (Len(list) \div 2) - 1, py)

\* heapq.heapreplace: the first item is replaced and the new one sifted
heapreplace(list, item, py) ==
    siftup([r \in 1..Len(list) |-> IF r = 1 THEN item ELSE list[r]], 0, py)

\* max(list) of a list that is not empty: an item replaces the maximum so
\* far when item > maximum
RECURSIVE max_from(_, _, _, _)
max_from(list, i, maxitem, py) ==
    IF i > Len(list) THEN [result |-> <<maxitem>>, error |-> "none"]
    ELSE LET more == IsingSample_gt(list[i], maxitem, py)
         IN  IF more = "TypeError"
             THEN [result |-> <<>>, error |-> "TypeError"]
             ELSE max_from(list, i + 1,
                           IF more = "True" THEN list[i] ELSE maxitem, py)

reversed(list) == [r \in 1..Len(list) |-> list[Len(list) + 1 - r]]

\* list.sort, count_run: the length of the run the list starts with, from
\* position pos on, and whether it is a strictly descending run
RECURSIVE run_end(_, _, _, _)
run_end(list, pos, descending, py) ==
    LET less == item_lt(list[pos + 1], list[pos], py)
    IN  IF pos >= Len(list)
        THEN [n |-> pos, descending |-> descending, error |-> "none"]
        ELSE IF less = "TypeError"
        THEN [n |-> pos, descending |-> descending, error |-> "TypeError"]
        ELSE IF (less = "True") = descending
        THEN run_end(list, pos + 1, descending, py)
        ELSE [n |-> pos, descending |-> descending, error |-> "none"]

count_run(list, py) ==
    LET less == item_lt(list[2], list[1], py)
    IN  IF Len(list) < 2
        THEN [n |-> Len(list), descending |-> FALSE, error |-> "none"]
        ELSE IF less = "TypeError"
        THEN [n |-> 1, descending |-> FALSE, error |-> "TypeError"]
        ELSE run_end(list, 2, less = "True", py)

\* list.sort, binarysort: where pivot goes among the sorted items at
\* positions l..r-1
RECURSIVE bisect(_, _, _, _, _)
bisect(list, pivot, l, r, py) ==
    LET p == l + ((r - l) \div 2)
        less == item_lt(pivot, list[p + 1], py)
        l2 == IF less = "True" THEN l ELSE p + 1
        r2 == IF less = "True" THEN p ELSE r
    IN  IF less = "TypeError" THEN [pos |-> l, error |-> "TypeError"]
        ELSE IF l2 < r2 THEN bisect(list, pivot, l2, r2, py)
        ELSE [pos |-> l2, error |-> "none"]

\* list.sort, binarysort: the items from position start on are inserted one
\* by one into the sorted items before them
RECURSIVE binarysort(_, _, _)
binarysort(list, start, py) ==
    IF start >= Len(list) THEN [list |-> list, error |-> "none"]
    ELSE LET place == bisect(list, list[start + 1], 0, start, py)
         IN  IF place.error # "none"
             THEN [list |-> list, error |-> place.error]
             ELSE binarysort(
                     [r \in 1..Len(list) |->
                         IF r <= place.pos THEN list[r]
                         ELSE IF r = place.pos + 1 THEN list[start + 1]
                         ELSE IF r <= start + 1 THEN list[r - 1]
                         ELSE list[r]],
                     start + 1, py)

\* list.sort() of a list of fewer than 64 items: the leading run is found,
\* reversed when it descends, and the rest is inserted into it
list_sort(list, py) ==
    LET run == count_run(list, py)
        head == IF run.descending
                THEN [r \in 1..Len(list) |->
                         IF r <= run.n THEN list[run.n + 1 - r] ELSE list[r]]
                ELSE list
    IN  IF run.error # "none" THEN [list |-> list, error |-> run.error]
        ELSE binarysort(head, run.n, py)

\* list.sort(reverse=True): the list is reversed, sorted and reversed again
list_sort_reverse(list, py) ==
    LET done == list_sort(reversed(list), py)
    IN  [list |-> reversed(done.list), error |-> done.error]

\* heapq.nlargest, the loop over the items after the first n: an item
\* greater than the least of the n kept replaces it
RECURSIVE nlargest_rest(_, _, _, _, _)
nlargest_rest(result, list, i, order, py) ==
    LET more == IsingSample_lt(result[1].elem, list[i], py)
        replaced == heapreplace(result, [elem |-> list[i], order |-> order],
                                py)
    IN  IF i > Len(list) THEN [heap |-> result, error |-> "none"]
        ELSE IF more = "TypeError"
        THEN [heap |-> result, error |-> "TypeError"]
        ELSE IF more = "False"
        THEN nlargest_rest(result, list, i + 1, order, py)
        ELSE IF replaced.error # "none"
        THEN [heap |-> result, error |-> replaced.error]
        ELSE nlargest_rest(replaced.heap, list, i + 1, order - 1, py)

\* heapq.nlargest, its end: the n kept items are sorted, greatest first, and
\* their elements returned
nlargest_ordered(n, ordered) ==
    IF ordered.error # "none" THEN [result |-> <<>>, error |-> ordered.error]
    ELSE [result |-> [r \in 1..n |-> ordered.list[r].elem],
          error  |-> "none"]

\* heapq.nlargest, after the loop over the items that follow the first n
nlargest_kept(n, kept, py) ==
    IF kept.error # "none" THEN [result |-> <<>>, error |-> kept.error]
    ELSE nlargest_ordered(n, list_sort_reverse(kept.heap, py))

\* heapq.nlargest, after heapify of the first n items
nlargest_heaped(n, heaped, list, py) ==
    IF heaped.error # "none" THEN [result |-> <<>>, error |-> heaped.error]
    ELSE nlargest_kept(n, nlargest_rest(heaped.heap, list, n + 1, -n, py),
                       py)

\* heapq.nlargest for n >= len(list): sorted(list, reverse=True)[:n]
nlargest_sorted(all) ==
    [result |-> IF all.error = "none" THEN all.list ELSE <<>>,
     error  |-> all.error]

\* heapq.nlargest(n, list)
nlargest(n, list, py) ==
    IF n = 1
    THEN IF list = <<>> THEN [result |-> <<>>, error |-> "none"]
         ELSE max_from(list, 2, list[1], py)
    ELSE IF n >= Len(list)
    THEN nlargest_sorted(list_sort_reverse(list, py))
    ELSE IF n <= 0 THEN [result |-> <<>>, error |-> "none"]
    ELSE nlargest_heaped(
             n,
             heapify([r \in 1..n |-> [elem |-> list[r], order |-> 1 - r]],
                     py),
             list, py)

----------------------------------------------------------------------------
(* data.py: SamplePool.  A pooled IsingSample is a record of its           *)
(* assignment, occurences and energy; in_dict tells that self.dict holds   *)
(* this object under its as_tuple key.                                     *)

\* the keys of SamplePool.dict
SamplePool_dict(list) ==
    {as_tuple(list[i].assignment) : i \in {r \in 1..Len(list) : list[r].in_dict}}

\* as SamplePool_len, counting the pooled Samples instead of their occurences
SamplePool_len_distinct(list) == Len(list)

\* SamplePool.__len__
SamplePool_len(list) ==
    SumOver(1..Len(list), [i \in 1..Len(list) |-> list[i].occurences])

\* SamplePool.add
SamplePool_add(list, sample, py) ==
    IF as_tuple(sample.assignment) \in SamplePool_dict(list)
    THEN [heap  |-> [i \in 1..Len(list) |->
                        IF /\ list[i].in_dict
                           /\ as_tuple(list[i].assignment)
                                = as_tuple(sample.assignment)
                        THEN [list[i] EXCEPT
                                 !.occurences = @ + sample.occurences]
                        ELSE list[i]],
          error |-> "none"]
    ELSE LET pushed == heappush(list,
                                [assignment |-> sample.assignment,
                                 occurences |-> sample.occurences,
                                 energy     |-> sample.energy,
                                 in_dict    |-> FALSE], py)
         IN  IF pushed.error # "none"
             THEN [heap |-> pushed.heap, error |-> pushed.error]
             ELSE [heap  |-> [i \in 1..Len(pushed.heap) |->
                                 IF i = pushed.pos + 1
                                 THEN [assignment |-> sample.assignment,
                                       occurences |-> sample.occurences,
                                       energy     |-> sample.energy,
                                       in_dict    |-> TRUE]
                                 ELSE pushed.heap[i]],
                   error |-> "none"]

\* SamplePool.n_best
n_best(list, number, py) == nlargest(number, list, py)

\* SamplePool.raw_data: the energy of every pooled Sample, once per occurrence
RECURSIVE raw_data(_)
raw_data(list) ==
    IF list = <<>> THEN <<>>
    ELSE [r \in 1..Head(list).occurences |-> Head(list).energy]
         \o raw_data(Tail(list))

\* SamplePool.mean_energy: numpy.average of raw_data, written sum / count;
\* numpy.average of an empty list is nan (with a RuntimeWarning)
mean_energy(list) ==
    IF raw_data(list) = <<>> THEN [value |-> "nan", error |-> "none"]
    ELSE [value |-> <<SumOver(1..Len(raw_data(list)), raw_data(list)),
                      Len(raw_data(list))>>,
          error |-> "none"]

----------------------------------------------------------------------------
(* Specification SpecPool: Samples of one model are added to a SamplePool, *)
(* under either major version of the interpreter.                          *)

\* a pool holds at most MaxTotal occurrences
MaxTotal == 5
\* occurrence counts the added Samples are constructed with
OccVals == {1, 2}
\* the pooled Samples are Samples of the models over these variables
PoolVars == {0, 1}
PoolModels == {model \in Models : model.variables \subseteq PoolVars}

InitPool ==
    /\ m \in PoolModels
    /\ constructed = [J |-> m.J, h |-> m.h]
    /\ last = NoClamp
    /\ call = NoSampleCall
    /\ cmp = NoCmp
    /\ py_major \in PyVersions
    /\ d = EmptyDict
    /\ written = {}
    /\ dcall = NoDictCall
    /\ NoPool
    /\ NoCopySer
    /\ NoExportRun

\* pool.add(IsingSample(m, x, occurences))
PoolAdd(x, occurences) ==
    /\ pcall.op \in {"none", "add"}
    /\ SamplePool_len(heap) + occurences <= MaxTotal
    /\ LET sample == IsingSample_init(m, x, occurences)
           key == as_tuple(sample.assignment)
           result == SamplePool_add(heap, sample, py_major)
       IN  /\ heap' = result.heap
           /\ added' = DictSet(added, key,
                               IF key \in DOMAIN added
                               THEN added[key] + occurences ELSE occurences)
           /\ pcall' = [op |-> "add", error |-> result.error]
    /\ UNCHANGED <<m, constructed, last, call, cmp, py_major, d, written,
                   dcall, copied, ser,
                   exported, g, par>>

\* pool.n_best(number): the call with what it returned or raised
PoolNBest(number) ==
    /\ pcall.op \in {"none", "add"}
    /\ pcall' = [op |-> "n_best", number |-> number]
                   @@ n_best(heap, number, py_major)
    /\ UNCHANGED <<m, constructed, last, call, cmp, py_major, d, written,
                   dcall, heap, added, copied, ser,
                   exported, g, par>>

\* pool.mean_energy: the call with what it returned or raised
PoolMeanEnergy ==
    /\ pcall.op \in {"none", "add"}
    /\ pcall' = [op |-> "mean_energy"] @@ mean_energy(heap)
    /\ UNCHANGED <<m, constructed, last, call, cmp, py_major, d, written,
                   dcall, heap, added, copied, ser,
                   exported, g, par>>

\* Samples are added; the pool is queried once, last
NextPool ==
    \/ \E x \in [m.variables -> Spins], occurences \in OccVals :
          PoolAdd(x, occurences)
    \/ \E number \in 0..(Len(heap) + 1) : PoolNBest(number)
    \/ PoolMeanEnergy

SpecPool == InitPool /\ [][NextPool]_vars

\* the positions of the pool's list
Pooled == 1..Len(heap)

\* C11: pool deduplication.  No assignment is pooled twice, every assignment
\* handed to add is pooled, and the occurrence count of a pooled assignment
\* is the sum of the counts of the Samples added with that assignment.
C11_PoolDeduplication ==
    /\ \A i, j \in Pooled :
          heap[i].assignment = heap[j].assignment => i = j
    /\ \A key \in DOMAIN added :
          \E i \in Pooled : as_tuple(heap[i].assignment) = key
    /\ \A i \in Pooled :
          heap[i].occurences = added[as_tuple(heap[i].assignment)]

\* C12: pool size.  len(pool) is the sum of the occurrence counts of all
\* Samples handed to add, and 0 for the empty pool.
C12_PoolSize ==
    /\ SamplePool_len(heap) = SumOver(DOMAIN added, added)
    /\ heap = <<>> => SamplePool_len(heap) = 0

\* two assignments are pooled and one of them was added more than once
C12_Witness ==
    /\ Len(heap) >= 2
    /\ Len(heap) < SamplePool_len(heap)
    /\ \E i \in Pooled : heap[i].occurences > 2
    /\ pcall.op = "add"

\* C13: pool indexing is best-first.  pool[0] is the pooled Sample of lowest
\* energy and the list is in descending Sample order, that is, in ascending
\* order of energy.
C13_BestFirst ==
    /\ \A i \in Pooled : heap[1].energy <= heap[i].energy
    /\ \A i, j \in Pooled : i < j => heap[i].energy <= heap[j].energy

\* the smaller of two numbers
Min(a, b) == IF a < b THEN a ELSE b

\* C14: n_best(n) returns min(n, number of distinct pooled Samples) Samples
\* in order of non-decreasing energy, none of them of higher energy than a
\* pooled Sample it does not return, and the empty list for an empty pool.
C14_NBest ==
    pcall.op = "n_best" =>
       /\ pcall.error = "none"
       /\ Len(pcall.result)
            = Min(pcall.number,
                  Cardinality({heap[i].assignment : i \in Pooled}))
       /\ \A r, t \in 1..Len(pcall.result) :
             r < t => pcall.result[r].energy <= pcall.result[t].energy
       /\ \A r \in 1..Len(pcall.result) : \A i \in Pooled :
             (\A t \in 1..Len(pcall.result) :
                 pcall.result[t].assignment # heap[i].assignment)
             => pcall.result[r].energy <= heap[i].energy
       /\ heap = <<>> => pcall.result = <<>>

\* C15: mean_energy on a pool with no occurrences fails with the empty-pool
\* error.
C15_MeanEnergyEmptyPool ==
    (pcall.op = "mean_energy" /\ SamplePool_len(heap) = 0) =>
       pcall.error = "empty pool"

----------------------------------------------------------------------------
(* bruteforce.py: BruteforceSampler                                        *)

\* itertools.product(values, repeat=repeat): the tuples in the order they are
\* yielded, the first component changing slowest
RECURSIVE product(_, _)
product(values, repeat) ==
    IF repeat = 0 THEN << <<>> >>
    ELSE LET rest == product(values, repeat - 1)
         IN  [r \in 1..(Len(values) * Len(rest)) |->
                <<values[((r - 1) \div Len(rest)) + 1]>>
                  \o rest[((r - 1) % Len(rest)) + 1]]

\* BruteforceSampler.generate_assignments
generate_assignments(model) ==
    product(<<-1, 1>>, Cardinality(model.variables))

\* the chunk size sample hands to split_iterator
ChunkSize == 100000

\* util.split_iterator(size, iterator): the items in chunks of at most size
\* items, in their order
RECURSIVE split_iterator(_, _)
split_iterator(size, list) ==
    IF list = <<>> THEN <<>>
    ELSE IF Len(list) <= size THEN <<list>>
    ELSE <<SubSeq(list, 1, size)>>
           \o split_iterator(size, SubSeq(list, size + 1, Len(list)))

\* for solution in chunk_solutions: pool.add(solution), up to the first add
\* that raises
RECURSIVE add_chunk(_, _, _)
add_chunk(list, chunk_solutions, py) ==
    IF chunk_solutions = <<>> THEN [heap |-> list, error |-> "none"]
    ELSE LET result == SamplePool_add(list, Head(chunk_solutions), py)
         IN  IF result.error # "none" THEN result
             ELSE add_chunk(result.heap, Tail(chunk_solutions), py)

\* the loop of sample over the chunks: the Samples of a chunk are constructed
\* and then added one by one
RECURSIVE sample_chunks(_, _, _, _)
sample_chunks(model, list, chunks, py) ==
    IF chunks = <<>> THEN [heap |-> list, error |-> "none"]
    ELSE LET chunk_solutions ==
                [r \in 1..Len(Head(chunks)) |->
                    IsingSample_init_sequence(model, Head(chunks)[r], 1)]
             result == add_chunk(list, chunk_solutions, py)
         IN  IF result.error # "none" THEN result
             ELSE sample_chunks(model, result.heap, Tail(chunks), py)

\* the outcome of BruteforceSampler.sample, the pool it returns or the
\* exception it raises, when the chunks are evaluated one after the other:
\* parallel returns the solutions in the order of the assignments
sample(model, py) ==
    sample_chunks(model, <<>>,
                  split_iterator(ChunkSize, generate_assignments(model)), py)

----------------------------------------------------------------------------
(* BruteforceSampler.sample step by step.  The calling thread waits inside *)
(* the call of parallel while joblib's workers run the IsingSample         *)
(* constructor calls of a chunk: tasks are started in the order of the     *)
(* assignments, at most one per worker at a time, complete in any order,   *)
(* and their results are returned as a list in the order of the            *)
(* assignments.  par.pc is the position of the calling thread: "chunk" at  *)
(* the head of the for loop over the chunks, "parallel" inside the call of *)
(* parallel, "fold" in the loop over chunk_solutions, "returned" or        *)
(* "raised" when sample is over.                                           *)

\* Parallel(n_jobs=-1) has between one and MaxWorkers workers
MaxWorkers == 2

\* sample, lines 35-38: the pool is created, the assignments are generated
\* and split into chunks
sample_begin(model, workers) ==
    [pc        |-> "chunk",
     workers   |-> workers,
     chunks    |-> split_iterator(ChunkSize, generate_assignments(model)),
     chunk     |-> <<>>,
     started   |-> 0,
     running   |-> {},
     solutions |-> EmptyDict,
     next      |-> 1,
     folded    |-> <<>>,
     error     |-> "none"]

\* sample, line 39: the for loop takes the next chunk, or is over
sample_next_chunk(run) ==
    IF run.chunks = <<>> THEN [run EXCEPT !.pc = "returned"]
    ELSE [run EXCEPT !.pc = "parallel",
                     !.chunk = Head(run.chunks),
                     !.chunks = Tail(run.chunks),
                     !.started = 0,
                     !.running = {},
                     !.solutions = EmptyDict,
                     !.next = 1]

\* sample, lines 40-43: a free worker starts the next task of the chunk
task_start(run) ==
    [run EXCEPT !.started = @ + 1, !.running = @ \cup {run.started + 1}]

\* sample, line 41: task i, the call IsingSample(model, assignment), returns
task_finish(run, model, i) ==
    [run EXCEPT
        !.running = @ \ {i},
        !.solutions = DictSet(@, i,
                              IsingSample_init_sequence(model, run.chunk[i],
                                                        1))]

\* sample, lines 45-46: one pass of the loop over chunk_solutions; the pool's
\* list after pool.add and the position of the calling thread
sample_fold(run, list, py) ==
    LET result == SamplePool_add(list, run.solutions[run.next], py)
    IN  [heap |-> result.heap,
         run  |-> IF result.error # "none"
                  THEN [run EXCEPT !.pc = "raised", !.error = result.error]
                  ELSE [run EXCEPT
                           !.pc = IF run.next = Len(run.chunk)
                                  THEN "chunk" ELSE "fold",
                           !.next = @ + 1,
                           !.folded = Append(@, run.chunk[run.next])]]

\* BruteforceSampler().sample(m) is called
SampleBegin(workers) ==
    /\ par.op = "none"
    /\ par' = [op |-> "sample"] @@ sample_begin(m, workers)
    /\ heap' = <<>>
    /\ UNCHANGED <<m, constructed, last, call, cmp, py_major, d, written,
                   dcall, added, pcall, copied, ser, exported, g>>

\* the calling thread takes the next chunk and hands it to parallel, or
\* returns the pool
NextChunk ==
    /\ par.op = "sample"
    /\ par.pc = "chunk"
    /\ par' = [op |-> "sample"] @@ sample_next_chunk(par)
    /\ UNCHANGED <<m, constructed, last, call, cmp, py_major, d, written,
                   dcall, heap, added, pcall, copied, ser, exported, g>>

\* a worker starts a task
TaskStart ==
    /\ par.op = "sample"
    /\ par.pc = "parallel"
    /\ par.started < Len(par.chunk)
    /\ Cardinality(par.running) < par.workers
    /\ par' = [op |-> "sample"] @@ task_start(par)
    /\ UNCHANGED <<m, constructed, last, call, cmp, py_major, d, written,
                   dcall, heap, added, pcall, copied, ser, exported, g>>

\* a worker finishes its task
TaskFinish(i) ==
    /\ par.op = "sample"
    /\ par.pc = "parallel"
    /\ i \in par.running
    /\ par' = [op |-> "sample"] @@ task_finish(par, m, i)
    /\ UNCHANGED <<m, constructed, last, call, cmp, py_major, d, written,
                   dcall, heap, added, pcall, copied, ser, exported, g>>

\* all tasks of the chunk are done: parallel returns chunk_solutions
Gather ==
    /\ par.op = "sample"
    /\ par.pc = "parallel"
    /\ DOMAIN par.solutions = 1..Len(par.chunk)
    /\ par' = [par EXCEPT !.pc = "fold"]
    /\ UNCHANGED <<m, constructed, last, call, cmp, py_major, d, written,
                   dcall, heap, added, pcall, copied, ser, exported, g>>

\* the calling thread adds the next solution of the chunk to the pool
Fold ==
    /\ par.op = "sample"
    /\ par.pc = "fold"
    /\ par' = [op |-> "sample"] @@ sample_fold(par, heap, py_major).run
    /\ heap' = sample_fold(par, heap, py_major).heap
    /\ UNCHANGED <<m, constructed, last, call, cmp, py_major, d, written,
                   dcall, added, pcall, copied, ser, exported, g>>

\* the tasks that run on a worker
RunningTasks == IF par.op = "sample" THEN par.running ELSE {}

NextBrute ==
    \/ \E workers \in 1..MaxWorkers : SampleBegin(workers)
    \/ NextChunk
    \/ TaskStart
    \/ \E i \in RunningTasks : TaskFinish(i)
    \/ Gather
    \/ Fold

----------------------------------------------------------------------------
(* Specification SpecBrute: a model, clamped or not, is sampled once by    *)
(* the BruteforceSampler, under either major version of the interpreter,   *)
(* step by step.                                                           *)

\* the 2x2 checkerboard model of test_sampler.py
Checkerboard ==
    IsingModel_init(<< <<<<0, 1>>, 1>>, <<<<1, 2>>, 1>>, <<<<2, 3>>, 1>>,
                       <<<<3, 0>>, 1>> >>, <<>>)

InitBrute ==
    /\ \/ InitClampedModel
       \/ /\ m = Checkerboard
          /\ constructed = [J |-> m.J, h |-> m.h]
          /\ last = NoClamp
    /\ call = NoSampleCall
    /\ cmp = NoCmp
    /\ py_major \in PyVersions
    /\ d = EmptyDict
    /\ written = {}
    /\ dcall = NoDictCall
    /\ NoPool
    /\ NoCopySer
    /\ NoExportRun

SpecBrute == InitBrute /\ [][NextBrute]_vars

\* C16: exhaustive sampling returns a pool with exactly one Sample, of
\* occurrence count 1, for every +/-1 assignment of the free variables, so
\* 2^k Samples for k free variables, and every clamped variable has its
\* clamped value in each of them.
C16_ExhaustiveSampling ==
    (par.op = "sample" /\ par.pc \in {"returned", "raised"}) =>
       /\ par.pc = "returned"
       /\ Len(heap) = Cardinality([m.variables -> Spins])
       /\ SamplePool_len(heap) = Cardinality([m.variables -> Spins])
       /\ \A x \in [m.variables -> Spins] :
             \E i \in Pooled : \A v \in m.variables :
                heap[i].assignment[v] = x[v]
       /\ \A i \in Pooled :
             /\ heap[i].occurences = 1
             /\ \A v \in DOMAIN m.clamped :
                   heap[i].assignment[v] = m.clamped[v]

\* C17: the two best entries of the pool sampled from the checkerboard model
\* are the assignments (-1,1,-1,1) and (1,-1,1,-1), of energy -4, and every
\* other pooled assignment has a higher energy.
C17_CheckerboardGroundStates ==
    (par.op = "sample" /\ par.pc \in {"returned", "raised"}
       /\ m = Checkerboard) =>
       /\ par.pc = "returned"
       /\ n_best(heap, 2, py_major).error = "none"
       /\ {as_tuple(n_best(heap, 2, py_major).result[r].assignment) :
              r \in 1..Len(n_best(heap, 2, py_major).result)}
            = {<<-1, 1, -1, 1>>, <<1, -1, 1, -1>>}
       /\ \A i \in Pooled :
             IF as_tuple(heap[i].assignment)
                  \in {<<-1, 1, -1, 1>>, <<1, -1, 1, -1>>}
             THEN heap[i].energy = -4
             ELSE heap[i].energy > -4

----------------------------------------------------------------------------
(* Text.  A Python string is the sequence of its characters, each of them  *)
(* a string of length one.  A number is an int or a float of integral      *)
(* value: where a text is written the two are told apart by a flag; a      *)
(* number read from JSON text is the record of its value num and of        *)
(* whether it is a float.                                                  *)

DigitChars == <<"0", "1", "2", "3", "4", "5", "6", "7", "8", "9">>

\* str(n), "{}".format(n) and json.dumps(n) of a natural number n
RECURSIVE str_nat(_)
str_nat(n) ==
    IF n < Len(DigitChars) THEN <<DigitChars[n + 1]>>
    ELSE str_nat(n \div Len(DigitChars))
           \o <<DigitChars[(n % Len(DigitChars)) + 1]>>

\* str(n), "{}".format(n) and json.dumps(n) of an integer n
str(n) == IF n < 0 THEN <<"-">> \o str_nat(-n) ELSE str_nat(n)

\* repr, "{}".format(x) and json.dumps(x) of a float x of integral value n
\* below 10^16: the digits of n and ".0"
repr_float(n) == str(n) \o <<".", "0">>

\* "{}".format(x) and json.dumps(x) of the number of value n, a float or an
\* int
format_number(n, is_float) == IF is_float THEN repr_float(n) ELSE str(n)

\* sep.join(texts)
RECURSIVE join(_, _)
join(sep, texts) ==
    IF texts = <<>> THEN <<>>
    ELSE IF Len(texts) = 1 THEN texts[1]
    ELSE texts[1] \o sep \o join(sep, Tail(texts))

\* "{}".format(values) and json.dumps(values) of a list of integers
str_list(values) ==
    <<"[">> \o join(<<",", " ">>, [r \in 1..Len(values) |-> str(values[r])])
            \o <<"]">>

\* json.dumps(text) of a string without quotes, backslashes or control
\* characters
json_string(text) == <<"\"">> \o text \o <<"\"">>

\* json.dumps(texts) of a list of such strings
json_strings(texts) ==
    <<"[">> \o join(<<",", " ">>,
                    [r \in 1..Len(texts) |-> json_string(texts[r])])
            \o <<"]">>

\* one "name": value member of a JSON object
json_member(name, text) == json_string(name) \o <<":", " ">> \o text

\* the position of the first character from pos on that is no space
RECURSIVE skip_space(_, _)
skip_space(text, pos) ==
    IF pos <= Len(text) /\ text[pos] = " " THEN skip_space(text, pos + 1)
    ELSE pos

is_digit(c) == \E n \in 1..Len(DigitChars) : DigitChars[n] = c
digit_value(c) == (CHOOSE n \in 1..Len(DigitChars) : DigitChars[n] = c) - 1

\* the digits from pos on, read as a decimal number
RECURSIVE parse_nat(_, _, _)
parse_nat(text, pos, acc) ==
    IF pos <= Len(text) /\ is_digit(text[pos])
    THEN parse_nat(text, pos + 1,
                   acc * Len(DigitChars) + digit_value(text[pos]))
    ELSE [value |-> acc, pos |-> pos]

\* 10 to the power n
RECURSIVE power_of_ten(_)
power_of_ten(n) == IF n = 0 THEN 1 ELSE Len(DigitChars) * power_of_ten(n - 1)

\* the integer part of a JSON number, (0|[1-9][0-9]*): a leading 0 is a
\* number of its own
parse_integer_part(text, pos) ==
    IF pos <= Len(text) /\ text[pos] = "0"
    THEN [value |-> 0, pos |-> pos + 1]
    ELSE parse_nat(text, pos, 0)

\* the fraction of a JSON number, (\.[0-9]+)?: its digits read as a decimal
\* number, and how many they are
parse_fraction(text, pos) ==
    IF /\ pos + 1 <= Len(text)
       /\ text[pos] = "."
       /\ is_digit(text[pos + 1])
    THEN [value  |-> parse_nat(text, pos + 1, 0).value,
          digits |-> parse_nat(text, pos + 1, 0).pos - (pos + 1),
          pos    |-> parse_nat(text, pos + 1, 0).pos]
    ELSE [value |-> 0, digits |-> 0, pos |-> pos]

\* the exponent of a JSON number, ([eE][-+]?[0-9]+)?
parse_exponent(text, pos) ==
    LET signed == pos + 1 <= Len(text) /\ text[pos + 1] \in {"-", "+"}
        first  == IF signed THEN pos + 2 ELSE pos + 1
    IN  IF /\ pos <= Len(text)
           /\ text[pos] \in {"e", "E"}
           /\ first <= Len(text)
           /\ is_digit(text[first])
        THEN [present |-> TRUE,
              value   |-> IF signed /\ text[pos + 1] = "-"
                          THEN 0 - parse_nat(text, first, 0).value
                          ELSE parse_nat(text, first, 0).value,
              pos     |-> parse_nat(text, first, 0).pos]
        ELSE [present |-> FALSE, value |-> 0, pos |-> pos]

\* the value of mantissa * 10^scale, an integer for the numbers of the model
scaled(mantissa, scale) ==
    IF scale >= 0 THEN mantissa * power_of_ten(scale)
    ELSE mantissa \div power_of_ten(0 - scale)

\* a JSON number, -?(0|[1-9][0-9]*)(\.[0-9]+)?([eE][-+]?[0-9]+)?, from pos on:
\* an int when it has neither fraction nor exponent, else a float
parse_number(text, pos) ==
    LET negative == text[pos] = "-"
        integer  == parse_integer_part(text,
                                       IF negative THEN pos + 1 ELSE pos)
        fraction == parse_fraction(text, integer.pos)
        exponent == parse_exponent(text, fraction.pos)
        mantissa == integer.value * power_of_ten(fraction.digits)
                      + fraction.value
        num      == scaled(mantissa, exponent.value - fraction.digits)
    IN  [value |-> [num   |-> IF negative THEN 0 - num ELSE num,
                    float |-> fraction.digits > 0 \/ exponent.present],
         pos   |-> exponent.pos]

\* the characters of a JSON string up to its closing quote
RECURSIVE parse_string(_, _, _)
parse_string(text, pos, acc) ==
    IF text[pos] = "\"" THEN [value |-> acc, pos |-> pos + 1]
    ELSE parse_string(text, pos + 1, Append(acc, text[pos]))

\* json.loads of well-formed text: an array becomes a sequence, an object a
\* dictionary keyed by strings, a number the record of its value and of
\* whether it is a float
RECURSIVE parse_value(_, _)
RECURSIVE parse_elements(_, _, _)
RECURSIVE parse_members(_, _, _)
parse_value(text, start) ==
    LET pos == skip_space(text, start)
    IN  IF text[pos] = "["
        THEN IF text[skip_space(text, pos + 1)] = "]"
             THEN [value |-> <<>>, pos |-> skip_space(text, pos + 1) + 1]
             ELSE parse_elements(text, pos + 1, <<>>)
        ELSE IF text[pos] = "{"
        THEN IF text[skip_space(text, pos + 1)] = "}"
             THEN [value |-> EmptyDict, pos |-> skip_space(text, pos + 1) + 1]
             ELSE parse_members(text, pos + 1, EmptyDict)
        ELSE IF text[pos] = "\"" THEN parse_string(text, pos + 1, <<>>)
        ELSE parse_number(text, pos)

parse_elements(text, pos, acc) ==
    LET item == parse_value(text, pos)
        next == skip_space(text, item.pos)
    IN  IF text[next] = ","
        THEN parse_elements(text, next + 1, Append(acc, item.value))
        ELSE [value |-> Append(acc, item.value), pos |-> next + 1]

parse_members(text, pos, acc) ==
    LET name == parse_string(text, skip_space(text, pos) + 1, <<>>)
        item == parse_value(text, skip_space(text, name.pos) + 1)
        next == skip_space(text, item.pos)
    IN  IF text[next] = ","
        THEN parse_members(text, next + 1,
                           DictSet(acc, name.value, item.value))
        ELSE [value |-> DictSet(acc, name.value, item.value),
              pos   |-> next + 1]

json_loads(text) == parse_value(text, 1).value

\* text.split(sep) for a separator of one character
RECURSIVE split(_, _)
split(text, sep) ==
    IF \A r \in 1..Len(text) : text[r] # sep THEN <<text>>
    ELSE LET i == CHOOSE r \in 1..Len(text) :
                     /\ text[r] = sep
                     /\ \A t \in 1..(r - 1) : text[t] # sep
         IN  <<SubSeq(text, 1, i - 1)>>
               \o split(SubSeq(text, i + 1, Len(text)), sep)

\* int(text) of the text of an integer: spaces around the number are ignored
int(text) ==
    LET pos == skip_space(text, 1)
    IN  IF text[pos] = "-" THEN 0 - parse_nat(text, pos + 1, 0).value
        ELSE IF text[pos] = "+" THEN parse_nat(text, pos + 1, 0).value
        ELSE parse_nat(text, pos, 0).value

----------------------------------------------------------------------------
(* data.py: IsingModel.serialize and IsingModel.deserialize                *)

\* serialize_items of a dictionary keyed by tuples, whose values are ints:
\* "[i, j]: value" for every item, in the order of the dict
serialize_tuple_items(dict, order) ==
    [r \in 1..Len(dict_items(dict, order)) |->
        str_list(dict_items(dict, order)[r][1]) \o <<":", " ">>
          \o str(dict_items(dict, order)[r][2])]

\* serialize_items of a dictionary keyed by integers: "key: value" for every
\* item, in the order of the dict; floats holds the keys of the float values
serialize_single_items(dict, order, floats) ==
    [r \in 1..Len(dict_items(dict, order)) |->
        str(dict_items(dict, order)[r][1]) \o <<":", " ">>
          \o format_number(dict_items(dict, order)[r][2],
                           dict_items(dict, order)[r][1] \in floats)]

\* the names of the serialized attributes
name_J == <<"J">>
name_h == <<"h">>
name_J_clamped == <<"J", "_", "c", "l", "a", "m", "p", "e", "d">>
name_h_clamped == <<"h", "_", "c", "l", "a", "m", "p", "e", "d">>
name_variables == <<"v", "a", "r", "i", "a", "b", "l", "e", "s">>
name_energy_offset == <<"e", "n", "e", "r", "g", "y", "_", "o", "f", "f", "s", "e", "t">>
name_clamped == <<"c", "l", "a", "m", "p", "e", "d">>

\* IsingModel.serialize: the items of the dicts in the order of each dict,
\* and list(self.variables) in the order of the slots of the set
IsingModel_serialize(model) ==
    <<"{">>
    \o join(<<",", " ">>,
            <<json_member(name_J,
                          json_strings(
                              serialize_tuple_items(model.J, model.order.J))),
              json_member(name_h,
                          json_strings(
                              serialize_single_items(model.h, model.order.h,
                                                     {}))),
              json_member(name_J_clamped,
                          json_strings(
                              serialize_tuple_items(model.J_clamped,
                                                    model.order.J_clamped))),
              json_member(name_h_clamped,
                          json_strings(
                              serialize_single_items(
                                  model.h_clamped, model.order.h_clamped,
                                  model.floats.h_clamped))),
              json_member(name_variables,
                          str_list(set_list(model.slots))),
              json_member(name_energy_offset,
                          format_number(model.energy_offset,
                                        model.floats.energy_offset)),
              json_member(name_clamped,
                          json_strings(
                              serialize_single_items(model.clamped,
                                                     model.order.clamped,
                                                     {})))>>)
    \o <<"}">>

\* the key of an item "[i, j]: value" and the key of an item "key: value"
tuple_key(item) ==
    [r \in 1..Len(json_loads(split(item, ":")[1])) |->
        json_loads(split(item, ":")[1])[r].num]
single_key(item) == int(split(item, ":")[1])

\* the dict comprehensions of deserialize over the list l of item texts,
\* with the key of an item read by tuple_key or single_key: for every key
\* the value of the last item with the key, the keys in the order of their
\* first item, and the keys whose value is a float
RECURSIVE deserialize_tuple_items(_)
deserialize_tuple_items(l) ==
    IF l = <<>> THEN [dict |-> EmptyDict, order |-> <<>>, floats |-> {}]
    ELSE LET before == deserialize_tuple_items(SubSeq(l, 1, Len(l) - 1))
             key    == tuple_key(l[Len(l)])
             value  == json_loads(split(l[Len(l)], ":")[2])
         IN  [dict   |-> DictSet(before.dict, key, value.num),
              order  |-> order_set(before.order, key),
              floats |-> IF value.float THEN before.floats \cup {key}
                         ELSE before.floats \ {key}]

RECURSIVE deserialize_single_items(_)
deserialize_single_items(l) ==
    IF l = <<>> THEN [dict |-> EmptyDict, order |-> <<>>, floats |-> {}]
    ELSE LET before == deserialize_single_items(SubSeq(l, 1, Len(l) - 1))
             key    == single_key(l[Len(l)])
             value  == json_loads(split(l[Len(l)], ":")[2])
         IN  [dict   |-> DictSet(before.dict, key, value.num),
              order  |-> order_set(before.order, key),
              floats |-> IF value.float THEN before.floats \cup {key}
                         ELSE before.floats \ {key}]

\* as IsingModel_deserialize, leaving the clamped attributes as the
\* constructor made them
IsingModel_deserialize_constructed(datastring) ==
    LET data == json_loads(datastring)
        J == deserialize_tuple_items(data[name_J])
        h == deserialize_single_items(data[name_h])
    IN  IsingModel_init(dict_items(J.dict, J.order),
                        dict_items(h.dict, h.order))

\* IsingModel.deserialize of a text whose J, h, J_clamped and clamped hold
\* ints, as in every text serialize writes
IsingModel_deserialize(datastring) ==
    LET data == json_loads(datastring)
        J == deserialize_tuple_items(data[name_J])
        h == deserialize_single_items(data[name_h])
        obj == IsingModel_init(dict_items(J.dict, J.order),
                               dict_items(h.dict, h.order))
        J_clamped == deserialize_tuple_items(data[name_J_clamped])
        h_clamped == deserialize_single_items(data[name_h_clamped])
        clamped == deserialize_single_items(data[name_clamped])
    IN  [J             |-> obj.J,
         h             |-> obj.h,
         J_clamped     |-> symmetric_update(
                               EmptyDict,
                               dict_items(J_clamped.dict, J_clamped.order)),
         h_clamped     |-> zerodefaultdict_init(
                               dict_items(h_clamped.dict, h_clamped.order)),
         clamped       |-> clamped.dict,
         energy_offset |-> data[name_energy_offset].num,
         variables     |-> {data[name_variables][r].num :
                               r \in 1..Len(data[name_variables])},
         slots         |-> set_update(new_table(8),
                                      [r \in 1..Len(data[name_variables]) |->
                                          data[name_variables][r].num]),
         order         |-> [J         |-> obj.order.J,
                            h         |-> obj.order.h,
                            J_clamped |-> symmetric_order(
                                              dict_items(J_clamped.dict,
                                                    J_clamped.order)),
                            h_clamped |-> h_clamped.order,
                            clamped   |-> clamped.order],
         floats        |-> [h_clamped     |-> h_clamped.floats,
                            energy_offset |-> data[name_energy_offset].float]]

----------------------------------------------------------------------------
(* data.py: IsingSample.serialize and IsingSample.deserialize              *)

\* sorted(dict.items()) of a dictionary keyed by integers
sorted_items(dict) == dict_items(dict, sorted(DOMAIN dict))

\* IsingSample.serialize: the sorted items of the stored assignment, the
\* occurrence count and the energy
IsingSample_serialize(self) ==
    <<"[">>
    \o join(<<",", " ">>,
            << <<"[">>
                 \o join(<<",", " ">>,
                         [r \in 1..Len(sorted_items(self.assignment)) |->
                             str_list(sorted_items(self.assignment)[r])])
                 \o <<"]">>,
               str(self.occurences),
               format_number(self.energy, self.energy_float) >>)
    \o <<"]">>

\* {int(key): value for key, value in items}, the items read from JSON text
\* that holds ints
RECURSIVE sample_dict(_)
sample_dict(l) ==
    IF l = <<>> THEN EmptyDict
    ELSE DictSet(sample_dict(SubSeq(l, 1, Len(l) - 1)),
                 l[Len(l)][1].num, l[Len(l)][2].num)

\* IsingSample.deserialize
IsingSample_deserialize(model, datastring) ==
    LET data == json_loads(datastring)
    IN  IsingSample_init(model, sample_dict(data[1]), data[2].num)

----------------------------------------------------------------------------
(* Specifications SpecSer and SpecSerSample: a model, clamped or not, or   *)
(* one of its Samples is serialized and deserialized again.                *)

\* the clamps made on a model before it is serialized: its variables in any
\* order, neighbouring variables at opposite values, in either sign
ClampSequences(model) ==
    {c \in SeqsUpTo(model.variables \X Spins, Cardinality(model.variables)) :
        /\ \A r, t \in 1..Len(c) : c[r][1] = c[t][1] => r = t
        /\ \E s \in Spins :
              \A r \in 1..Len(c) : c[r][2] = ClampSign(c[r][1], s)}

\* model.clamp(variable, value) for every item of clamps, in their order
RECURSIVE ClampEach(_, _)
ClampEach(model, clamps) ==
    IF clamps = <<>> THEN model
    ELSE ClampEach(clamp(model, Head(clamps)[1], Head(clamps)[2]).model,
                   Tail(clamps))

\* the serialized models are models over these variables: 8 has the slot
\* of 0 in the hash table of a small set, so that list(self.variables) is
\* not in ascending order where 8 is active
SerVars == {1, 2, 8}
SerName(v) == IF v = 0 THEN 8 ELSE v

\* the variables that the items of the dictionaries J and h name
ItemVariables(J, h) ==
    UNION {{J[r][1][1], J[r][1][2]} : r \in 1..Len(J)}
       \cup {h[r][1] : r \in 1..Len(h)}

\* the dictionaries J and h with 8 in the place of the variable 0
SerJ(J) ==
    [r \in 1..Len(J) |->
        << <<SerName(J[r][1][1]), SerName(J[r][1][2])>>, J[r][2] >>]
SerH(h) == [r \in 1..Len(h) |-> <<SerName(h[r][1]), h[r][2]>>]

\* the model that is serialized was constructed from dictionaries that hold
\* their items in any order, and clamped in any order
InitSer ==
    /\ \E J \in AnyOrderJInputs, h \in AnyOrderHInputs(MaxH + 1) :
          /\ ItemVariables(SerJ(J), SerH(h)) \subseteq SerVars
          /\ LET model == IsingModel_init(SerJ(J), SerH(h))
             IN  \E c \in ClampSequences(model) : m = ClampEach(model, c)
    /\ constructed = [J |-> m.J, h |-> m.h]
    /\ last = NoClamp
    /\ call = NoSampleCall
    /\ cmp = NoCmp
    /\ py_major = 3
    /\ d = EmptyDict
    /\ written = {}
    /\ dcall = NoDictCall
    /\ NoPool
    /\ NoCopySer
    /\ NoExportRun

\* IsingModel.deserialize(m.serialize())
SerializeModel ==
    /\ ser.op = "none"
    /\ ser' = [op           |-> "model",
               datastring   |-> IsingModel_serialize(m),
               deserialized |->
                   IsingModel_deserialize(IsingModel_serialize(m))]
    /\ UNCHANGED <<m, constructed, last, call, cmp, py_major, d, written,
                   dcall, heap, added, pcall, copied,
                   exported, g, par>>

\* sample = IsingSample(m, x, occurences);
\* IsingSample.deserialize(m, sample.serialize())
SerializeSample(x, occurences) ==
    /\ ser.op = "none"
    /\ LET self == IsingSample_init(m, x, occurences)
       IN  ser' = [op           |-> "sample",
                   sample       |-> self,
                   datastring   |-> IsingSample_serialize(self),
                   deserialized |->
                       IsingSample_deserialize(m,
                                               IsingSample_serialize(self))]
    /\ UNCHANGED <<m, constructed, last, call, cmp, py_major, d, written,
                   dcall, heap, added, pcall, copied,
                   exported, g, par>>

NextSer == SerializeModel

SpecSer == InitSer /\ [][NextSer]_vars

NextSerSample ==
    \E x \in [m.variables -> Spins], occurences \in OccVals :
       SerializeSample(x, occurences)

SpecSerSample == InitSer /\ [][NextSerSample]_vars

\* C18: model serialization round trip.  The model deserialized from the
\* serialized model equals it in J, h, J_clamped, h_clamped, variables,
\* clamped and energy_offset; variables is compared as the set it is,
\* whatever the order serialize wrote its elements in.
C18_ModelRoundTrip ==
    ser.op = "model" =>
       /\ ser.deserialized.J = m.J
       /\ ser.deserialized.h = m.h
       /\ ser.deserialized.J_clamped = m.J_clamped
       /\ ser.deserialized.h_clamped = m.h_clamped
       /\ ser.deserialized.variables = m.variables
       /\ set_keys(ser.deserialized.slots) = set_keys(m.slots)
       /\ ser.deserialized.clamped = m.clamped
       /\ ser.deserialized.energy_offset = m.energy_offset

\* a model with a clamped and a free variable, whose clamped matrices differ
\* from the original ones and whose energy offset is negative, went through
\* the round trip; its h holds its items in descending key order, a value of
\* its h_clamped is a float, and the deserialized model has the same orders
\* and the same floats; variables was written in an order that is not the
\* ascending one, from a hash table that a clamp has left a dummy slot in
C18_Witness ==
    /\ ser.op = "model"
    /\ m.clamped # EmptyDict
    /\ m.variables # {}
    /\ m.J_clamped # m.J
    /\ m.h_clamped # m.h
    /\ m.energy_offset < 0
    /\ Len(m.order.h) > 1
    /\ m.order.h[1] > m.order.h[2]
    /\ m.floats.h_clamped # {}
    /\ ser.deserialized.order = m.order
    /\ ser.deserialized.floats = m.floats
    /\ set_list(m.slots) # sorted(m.variables)
    /\ set_fill(m.slots) > set_used(m.slots)

\* C19: Sample serialization round trip.  For any model, also one with
\* clamped variables, deserializing a serialized Sample succeeds and gives a
\* Sample of the same assignment, occurrence count and energy.
C19_SampleRoundTrip ==
    ser.op = "sample" =>
       /\ ser.deserialized.error = "none"
       /\ ser.deserialized.assignment = ser.sample.assignment
       /\ ser.deserialized.occurences = ser.sample.occurences
       /\ ser.deserialized.energy = ser.sample.energy

----------------------------------------------------------------------------
(* data.py: IsingModel.copy.  Two models can hold the same dictionary or   *)
(* set object in an attribute: a copy is the record of its attributes and  *)
(* the set of the attributes whose object it shares with the original.     *)

\* zerodefaultdict.copy: a new zerodefaultdict with the same items
zerodefaultdict_copy(dict, order) ==
    zerodefaultdict_init(dict_items(dict, order))

\* symmetriczerodefaultdict.copy: a new symmetriczerodefaultdict updated with
\* the items of this one
symmetric_copy(dict, order) ==
    symmetric_update(EmptyDict, dict_items(dict, order))

\* as IsingModel_copy, assigning the attributes of the clamped model without
\* copying them
IsingModel_copy_shared(self) ==
    LET copied_model ==
            IsingModel_init(
                dict_items(symmetric_copy(self.J, self.order.J), self.order.J),
                dict_items(zerodefaultdict_copy(self.h, self.order.h),
                      self.order.h))
    IN  [model  |-> [J             |-> copied_model.J,
                     h             |-> copied_model.h,
                     J_clamped     |-> self.J_clamped,
                     h_clamped     |-> self.h_clamped,
                     clamped       |-> self.clamped,
                     energy_offset |-> self.energy_offset,
                     variables     |-> self.variables,
                     slots         |-> self.slots,
                     order         |->
                         [J         |-> copied_model.order.J,
                          h         |-> copied_model.order.h,
                          J_clamped |-> self.order.J_clamped,
                          h_clamped |-> self.order.h_clamped,
                          clamped   |-> self.order.clamped],
                     floats        |-> self.floats],
         shared |-> {"J_clamped", "h_clamped", "clamped", "variables"}]

\* IsingModel.copy: the constructor is called with copies of J and h, then
\* the other attributes are assigned copies; a copy of a dict holds the items
\* in the order of the dict
IsingModel_copy(self) ==
    LET copied_model ==
            IsingModel_init(
                dict_items(symmetric_copy(self.J, self.order.J), self.order.J),
                dict_items(zerodefaultdict_copy(self.h, self.order.h),
                      self.order.h))
    IN  [model  |-> [J             |-> copied_model.J,
                     h             |-> copied_model.h,
                     J_clamped     |-> symmetric_copy(self.J_clamped,
                                                      self.order.J_clamped),
                     h_clamped     |-> zerodefaultdict_copy(
                                           self.h_clamped,
                                           self.order.h_clamped),
                     clamped       |-> [key \in DOMAIN self.clamped |->
                                           self.clamped[key]],
                     energy_offset |-> self.energy_offset,
                     variables     |-> {v \in self.variables : TRUE},
                     slots         |-> set_copy(self.slots),
                     order         |->
                         [J         |-> copied_model.order.J,
                          h         |-> copied_model.order.h,
                          J_clamped |-> symmetric_order(
                                            dict_items(self.J_clamped,
                                                  self.order.J_clamped)),
                          h_clamped |-> zerodefault_order(
                                            dict_items(self.h_clamped,
                                                  self.order.h_clamped)),
                          clamped   |-> self.order.clamped],
                     floats        |-> self.floats],
         shared |-> {}]

\* the attributes of a model after the other model that shares the objects
\* named in shared has changed them in place; the energy offset is a number
\* and never shared
aliased(model, other, shared) ==
    [J             |-> IF "J" \in shared THEN other.J ELSE model.J,
     h             |-> IF "h" \in shared THEN other.h ELSE model.h,
     J_clamped     |-> IF "J_clamped" \in shared
                       THEN other.J_clamped ELSE model.J_clamped,
     h_clamped     |-> IF "h_clamped" \in shared
                       THEN other.h_clamped ELSE model.h_clamped,
     clamped       |-> IF "clamped" \in shared
                       THEN other.clamped ELSE model.clamped,
     energy_offset |-> model.energy_offset,
     variables     |-> IF "variables" \in shared
                       THEN other.variables ELSE model.variables,
     slots         |-> IF "variables" \in shared
                       THEN other.slots ELSE model.slots,
     order         |->
         [a \in {"J", "h", "J_clamped", "h_clamped", "clamped"} |->
             IF a \in shared THEN other.order[a] ELSE model.order[a]],
     floats        |->
         [h_clamped     |-> IF "h_clamped" \in shared
                            THEN other.floats.h_clamped
                            ELSE model.floats.h_clamped,
          energy_offset |-> model.floats.energy_offset]]

----------------------------------------------------------------------------
(* Specification SpecCopy: a model, clamped or not, is copied; afterwards  *)
(* the original and the copy are clamped in any order.                     *)

\* the copied models are the models over these variables
CopyVars == {0, 1, 2}
CopyModels == {model \in Models : model.variables \subseteq CopyVars}

InitCopy ==
    /\ \E model \in CopyModels :
          \E c \in ClampInputs(model) : m = ClampAll(model, c)
    /\ constructed = [J |-> m.J, h |-> m.h]
    /\ last = NoClamp
    /\ call = NoSampleCall
    /\ cmp = NoCmp
    /\ py_major = 3
    /\ d = EmptyDict
    /\ written = {}
    /\ dcall = NoDictCall
    /\ NoPool
    /\ NoCopySer
    /\ NoExportRun

\* copied = m.copy()
Copy ==
    /\ copied.op = "none"
    /\ copied' = [op     |-> "copy",
                  model  |-> IsingModel_copy(m).model,
                  shared |-> IsingModel_copy(m).shared]
    /\ UNCHANGED <<m, constructed, last, call, cmp, py_major, d, written,
                   dcall, heap, added, pcall, ser,
                   exported, g, par>>

\* m.clamp(variable, value) after the copy was made
ClampOriginal(variable, value) ==
    /\ copied.op # "none"
    /\ m' = clamp(m, variable, value).model
    /\ copied' = [op     |-> "clamp original",
                  model  |-> aliased(copied.model, m', copied.shared),
                  shared |-> copied.shared]
    /\ UNCHANGED <<constructed, last, call, cmp, py_major, d, written,
                   dcall, heap, added, pcall, ser,
                   exported, g, par>>

\* copied.clamp(variable, value)
ClampCopy(variable, value) ==
    /\ copied.op # "none"
    /\ copied' = [op     |-> "clamp copy",
                  model  |-> clamp(copied.model, variable, value).model,
                  shared |-> copied.shared]
    /\ m' = aliased(m, copied'.model, copied.shared)
    /\ UNCHANGED <<constructed, last, call, cmp, py_major, d, written,
                   dcall, heap, added, pcall, ser,
                   exported, g, par>>

NextCopy ==
    \/ Copy
    \/ \E variable \in CopyVars, value \in Spins :
          ClampOriginal(variable, value)
    \/ \E variable \in CopyVars, value \in Spins :
          ClampCopy(variable, value)

SpecCopy == InitCopy /\ [][NextCopy]_vars

\* copy() returns a model equal to the original, the set variables in a
\* hash table of its own that holds the same elements; a later clamp of the
\* original leaves the copy as it was, and a later clamp of the copy leaves
\* the original as it was
C20_Step ==
    /\ (copied.op = "none" /\ copied'.op = "copy") =>
          /\ [copied'.model EXCEPT !.slots = m.slots] = m
          /\ set_keys(copied'.model.slots) = set_keys(m.slots)
    /\ copied'.op = "clamp original" => copied'.model = copied.model
    /\ copied'.op = "clamp copy" => m' = m

\* C20: the copy equals the original in J, h, J_clamped, h_clamped,
\* variables, clamped and energy_offset and is independent of it: no clamp
\* of one of them changes the other.
C20_CopyIndependent == [][C20_Step]_vars

\* after the copy, the original and the copy have each clamped a variable
\* the other has not
C20_Witness ==
    /\ copied.op # "none"
    /\ \E v \in DOMAIN m.clamped : v \notin DOMAIN copied.model.clamped
    /\ \E v \in DOMAIN copied.model.clamped : v \notin DOMAIN m.clamped
    /\ m.J_clamped # copied.model.J_clamped

----------------------------------------------------------------------------
(* data.py: IsingModel.as_dwave.  A Python list is a sequence, so the      *)
(* entry at position r (from 0) of h_dwave is h_dwave[r + 1].              *)

\* mapping = {variable: index for index, variable
\*            in enumerate(sorted(variables))}
dwave_mapping(variables) ==
    [variable \in variables |->
        (CHOOSE r \in 1..Cardinality(variables) :
            sorted(variables)[r] = variable) - 1]

\* as as_dwave, with the couplings keyed by the variables themselves
as_dwave_unmapped(model) ==
    IF \E key \in DOMAIN model.J_clamped :
          key[1] \notin model.variables \/ key[2] \notin model.variables
    THEN [error |-> "KeyError"]
    ELSE IF \E index \in DOMAIN model.h_clamped : index \notin model.variables
    THEN [error |-> "KeyError"]
    ELSE [error   |-> "none",
          h_dwave |->
              [r \in 1..Cardinality(model.variables) |->
                  IF sorted(model.variables)[r] \in DOMAIN model.h_clamped
                  THEN model.h_clamped[sorted(model.variables)[r]] ELSE 0],
          J_dwave |-> model.J_clamped]

\* IsingModel.as_dwave(): h_dwave and J_dwave, or error "KeyError" when a
\* reduced term names a variable that mapping does not have
as_dwave(model) ==
    IF \E key \in DOMAIN model.J_clamped :
          key[1] \notin model.variables \/ key[2] \notin model.variables
    THEN [error |-> "KeyError"]
    ELSE IF \E index \in DOMAIN model.h_clamped : index \notin model.variables
    THEN [error |-> "KeyError"]
    ELSE [error   |-> "none",
          h_dwave |->
              [r \in 1..Cardinality(model.variables) |->
                  IF sorted(model.variables)[r] \in DOMAIN model.h_clamped
                  THEN model.h_clamped[sorted(model.variables)[r]] ELSE 0],
          J_dwave |->
              [pair \in {<<dwave_mapping(model.variables)[key[1]],
                           dwave_mapping(model.variables)[key[2]]>> :
                            key \in DOMAIN model.J_clamped} |->
                  model.J_clamped[CHOOSE key \in DOMAIN model.J_clamped :
                      pair = <<dwave_mapping(model.variables)[key[1]],
                               dwave_mapping(model.variables)[key[2]]>>]]]

----------------------------------------------------------------------------
(* Specification SpecDwave: a model, clamped or not, is exported with      *)
(* as_dwave.                                                               *)

InitDwave ==
    /\ InitClampedModel
    /\ call = NoSampleCall
    /\ cmp = NoCmp
    /\ py_major = 3
    /\ d = EmptyDict
    /\ written = {}
    /\ dcall = NoDictCall
    /\ NoPool
    /\ NoCopySer
    /\ NoExportRun

\* h_dwave, J_dwave = m.as_dwave()
AsDwave ==
    /\ exported.op = "none"
    /\ exported' = [op |-> "as_dwave"] @@ as_dwave(m)
    /\ UNCHANGED <<m, constructed, last, call, cmp, py_major, d, written,
                   dcall, heap, added, pcall, copied, ser, g, par>>

NextDwave == AsDwave

SpecDwave == InitDwave /\ [][NextDwave]_vars

\* the r-th smallest active variable, r counted from 0
NthActive(r) ==
    CHOOSE v \in m.variables : Cardinality({w \in m.variables : w < v}) = r

\* C21: hardware export.  as_dwave succeeds on every model reached by
\* clamps; the bias list has one entry per active variable, the entry at
\* position r being the reduced bias of the r-th smallest active variable
\* (0 when it has none); the coupling map has exactly one entry per reduced
\* quadratic term, keyed by the positions of its endpoints, both in
\* 0..N-1, with the same coefficient.
C21_HardwareExport ==
    exported.op = "as_dwave" =>
       LET N == Cardinality(m.variables)
       IN  /\ exported.error = "none"
           /\ Len(exported.h_dwave) = N
           /\ \A r \in 0..(N - 1) :
                 exported.h_dwave[r + 1] =
                    IF NthActive(r) \in DOMAIN m.h_clamped
                    THEN m.h_clamped[NthActive(r)] ELSE 0
           /\ DOMAIN exported.J_dwave \subseteq (0..(N - 1)) \X (0..(N - 1))
           /\ Cardinality(DOMAIN exported.J_dwave)
                 = Cardinality(DOMAIN m.J_clamped)
           /\ \A key \in DOMAIN m.J_clamped :
                 \E r1, r2 \in 0..(N - 1) :
                    /\ NthActive(r1) = key[1]
                    /\ NthActive(r2) = key[2]
                    /\ <<r1, r2>> \in DOMAIN exported.J_dwave
                    /\ exported.J_dwave[<<r1, r2>>] = m.J_clamped[key]

\* a model whose smallest variable is clamped, so that positions differ
\* from variables, was exported with a reduced coupling, a reduced bias
\* and an active variable without a bias
C21_Witness ==
    /\ exported.op = "as_dwave"
    /\ exported.error = "none"
    /\ m.clamped # EmptyDict
    /\ DOMAIN m.J_clamped # {}
    /\ \E v \in m.variables : v \notin DOMAIN m.h_clamped
    /\ \E v \in m.variables : v \in DOMAIN m.h_clamped /\ m.h_clamped[v] # 0
    /\ \E key \in DOMAIN m.J_clamped : key \notin DOMAIN exported.J_dwave

----------------------------------------------------------------------------
(* markov.py: Clique and MarkovNetwork.  A clique is a record of its list  *)
(* of nodes and its potential, a function of the tuple of the nodes'       *)
(* values; a network is a record of its list of cliques and its nodes.     *)
(* Nodes are strings, as the keyword arguments of Clique.factor must be.   *)
(* Potentials are natural numbers, so that a probability is an exact       *)
(* fraction, kept as the pair of its nominator and denominator.            *)

\* Clique.factor(**assignment): the sanity check of its keyword arguments
factor_defined(clique, assignment) ==
    \A i \in 1..Len(clique.nodes) : clique.nodes[i] \in DOMAIN assignment

\* Clique.factor(**assignment): the potential of the nodes' values
Clique_factor(clique, assignment) ==
    clique.potential[[i \in 1..Len(clique.nodes) |->
                         assignment[clique.nodes[i]]]]

\* set(c.nodes)
clique_nodes(clique) == {clique.nodes[i] : i \in 1..Len(clique.nodes)}

\* MarkovNetwork.__init__(cliques)
MarkovNetwork_init(cliques) ==
    [cliques |-> cliques,
     nodes   |-> UNION {clique_nodes(cliques[i]) : i \in 1..Len(cliques)}]

\* MarkovNetwork.cliques_containing_node(node)
cliques_containing_node(network, node) ==
    SelectSeq(network.cliques, LAMBDA c : node \in clique_nodes(c))

RECURSIVE factor_product(_, _)
\* product([c.factor(**assignment) for c in cliques])
factor_product(cliques, assignment) ==
    IF cliques = <<>> THEN 1
    ELSE Clique_factor(Head(cliques), assignment)
            * factor_product(Tail(cliques), assignment)

\* the product of the factors of the cliques of node, node having value
node_weight(network, assignment, node, value) ==
    factor_product(cliques_containing_node(network, node),
                   DictSet(assignment, node, value))

\* MarkovNetwork.node_probability(assignment, node): the probability of
\* node being True as the fraction nominator / denominator, or the error
\* raised
node_probability(network, assignment, node) ==
    IF \E i \in 1..Len(network.cliques) :
          /\ node \in clique_nodes(network.cliques[i])
          /\ ~factor_defined(network.cliques[i],
                             DictSet(assignment, node, TRUE))
    THEN [error |-> "ValueError"]
    ELSE IF node_weight(network, assignment, node, TRUE)
               + node_weight(network, assignment, node, FALSE) = 0
    THEN [error |-> "ZeroDivisionError"]
    ELSE [error       |-> "none",
          nominator   |-> node_weight(network, assignment, node, TRUE),
          denominator |-> node_weight(network, assignment, node, TRUE)
                            + node_weight(network, assignment, node, FALSE)]

----------------------------------------------------------------------------
(* gibbs.py: GibbsSampler.  The sampler is a record of its attributes and  *)
(* of the position of its generator: pc is "constructed" before the first  *)
(* next(), "sweep" inside the for loop of a sweep, "yielded" while the     *)
(* generator is suspended at its yield, "raised" after an exception.       *)

\* random.random() returns k / RandomDen for some k in 0..RandomDen-1
RandomDen == 8
RandomDraws == 0..(RandomDen - 1)

\* random.random() <= probability, for the draw k / RandomDen
random_le(k, probability) ==
    k * probability.denominator <= RandomDen * probability.nominator

\* GibbsSampler.__init__(network, evidence, burnin, step): uniform is the
\* assignment drawn for all nodes, order the order in which Python
\* iterates over the set unobserved_vars
GibbsSampler_init(network, evidence, burnin, step, uniform, order) ==
    [pc              |-> "constructed",
     op              |-> "init",
     network         |-> network,
     evidence        |-> evidence,
     burnin          |-> burnin,
     step            |-> step,
     assignment      |-> DictUpdate(uniform, evidence),
     unobserved_vars |-> network.nodes \ DOMAIN evidence,
     order           |-> order,
     iteration       |-> 0,
     todo            |-> <<>>,
     resampled       |-> <<>>,
     sweep_start     |-> DictUpdate(uniform, evidence),
     probability     |-> [error |-> "none", nominator |-> 0,
                          denominator |-> 1],
     samples         |-> <<>>,
     num_samples     |-> 0,
     error           |-> "none"]

\* __iter__, lines 145-148: iteration += 1 and the for loop begins
begin_sweep(self) ==
    [self EXCEPT !.pc = "sweep",
                 !.iteration = @ + 1,
                 !.todo = self.order,
                 !.resampled = <<>>,
                 !.sweep_start = self.assignment]

\* as conditioning, with the assignment the sweep began with
conditioning_sweep_start(self) == self.sweep_start

\* __iter__, line 149: the assignment handed to node_probability
conditioning(self) == self.assignment

\* __iter__, lines 148-152: one pass of the for loop, with the draw
\* k / RandomDen of random.random()
resample(self, k) ==
    LET variable    == Head(self.todo)
        probability == node_probability(self.network, conditioning(self),
                                        variable)
    IN  IF probability.error # "none"
        THEN [self EXCEPT !.pc = "raised", !.error = probability.error,
                          !.probability = probability]
        ELSE [self EXCEPT
                 !.assignment  = DictSet(@, variable,
                                         random_le(k, probability)),
                 !.probability = probability,
                 !.todo        = Tail(@),
                 !.resampled   = Append(@, variable)]

\* __iter__, line 156: the test that decides whether the sweep is yielded
records(self) ==
    self.iteration >= self.burnin /\ self.iteration % self.step = 0

\* as end_sweep, with a sweep that repeats the assignment of a recorded
\* sample merged into that sample instead of being recorded as a sample of
\* its own
end_sweep_merged(self) ==
    IF records(self)
    THEN [self EXCEPT
             !.pc = "yielded",
             !.samples =
                 IF \E i \in 1..Len(self.samples) :
                       self.samples[i].assignment = self.assignment
                 THEN @
                 ELSE Append(@, [iteration  |-> self.iteration,
                                 assignment |-> self.assignment])]
    ELSE begin_sweep(self)

\* __iter__, lines 156-157 and back to line 145: after the for loop the
\* sweep is yielded as a copy of the assignment, or the next sweep begins
end_sweep(self) ==
    IF records(self)
    THEN [self EXCEPT
             !.pc = "yielded",
             !.samples = Append(@, [iteration  |-> self.iteration,
                                    assignment |-> self.assignment])]
    ELSE begin_sweep(self)

\* GibbsSampler.generate(num_samples): the name islice is not defined in
\* gibbs.py, so the call raises NameError before the generator is created
GibbsSampler_generate(self, num_samples) ==
    [self EXCEPT !.pc = "raised", !.op = "generate", !.error = "NameError",
                 !.num_samples = num_samples]

\* A float of determine_gibbs_params is an IEEE 754 double of positive
\* value: mantissa * 2^(-scale), the mantissa as the sequence of its bits,
\* the least significant bit first.

\* the float 0.7, 0x1.6666666666666p-1
float_0_7 ==
    [mantissa |-> [i \in 1..52 |-> IF i % 4 \in {2, 3} THEN 1 ELSE 0]
                     \o <<1>>,
     scale    |-> 53]

\* the float 0.1, 0x1.999999999999ap-4
float_0_1 ==
    [mantissa |-> <<0, 1, 0, 1>>
                     \o [i \in 1..48 |-> IF i % 4 \in {0, 1} THEN 1 ELSE 0]
                     \o <<1>>,
     scale    |-> 56]

\* the bits of bits * k + carry for ints k, carry >= 0
RECURSIVE bits_times(_, _, _)
bits_times(bits, k, carry) ==
    IF bits = <<>>
    THEN IF carry = 0 THEN <<>>
         ELSE <<carry % 2>> \o bits_times(<<>>, k, carry \div 2)
    ELSE <<(Head(bits) * k + carry) % 2>>
           \o bits_times(Tail(bits), k, (Head(bits) * k + carry) \div 2)

\* the bits without the zeros above the most significant one
RECURSIVE bits_strip(_)
bits_strip(bits) ==
    IF bits = <<>> \/ bits[Len(bits)] = 1 THEN bits
    ELSE bits_strip(SubSeq(bits, 1, Len(bits) - 1))

\* the bits of the number plus one
RECURSIVE bits_increment(_)
bits_increment(bits) ==
    IF bits = <<>> THEN <<1>>
    ELSE IF Head(bits) = 0 THEN <<1>> \o Tail(bits)
    ELSE <<0>> \o bits_increment(Tail(bits))

\* the int the bits are the binary digits of
RECURSIVE bits_value(_)
bits_value(bits) ==
    IF bits = <<>> THEN 0 ELSE Head(bits) + 2 * bits_value(Tail(bits))

\* the exact number bits * 2^(-scale) rounded to a float: the nearest number
\* of precision significant bits, of two equally near ones the even one
float_round(bits, scale, precision) ==
    IF Len(bits) <= precision THEN [mantissa |-> bits, scale |-> scale]
    ELSE [mantissa |->
              IF /\ bits[Len(bits) - precision] = 1
                 /\ \/ bits[Len(bits) - precision + 1] = 1
                    \/ \E i \in 1..(Len(bits) - precision - 1) : bits[i] = 1
              THEN bits_increment(SubSeq(bits, Len(bits) - precision + 1,
                                         Len(bits)))
              ELSE SubSeq(bits, Len(bits) - precision + 1, Len(bits)),
          scale    |-> scale - (Len(bits) - precision)]

\* x * k for a float x and an int k, 0 <= k < 2^30: the int is converted to
\* a float exactly and the product is rounded
float_times(x, k) ==
    float_round(bits_strip(bits_times(x.mantissa, k, 0)), x.scale,
                Len(x.mantissa))

\* int(x) of a float x >= 0 below 2^31: the fraction is cut off
float_int(x) ==
    IF x.scale >= Len(x.mantissa) THEN 0
    ELSE IF x.scale >= 0
    THEN bits_value(SubSeq(x.mantissa, x.scale + 1, Len(x.mantissa)))
    ELSE bits_value([i \in 1..(0 - x.scale) |-> 0] \o x.mantissa)

\* determine_gibbs_params(n_variables): <<burn_in, thinning>>, for
\* n_variables below 2^15
determine_gibbs_params(n_variables) ==
    <<float_int(float_times(float_0_7, n_variables * n_variables)),
      float_int(float_times(float_0_1, n_variables)) + 3>>

----------------------------------------------------------------------------
(* Specification SpecGibbs: a GibbsSampler is constructed on a Markov      *)
(* network; its generator is advanced with next(), as a for loop over the  *)
(* sampler does, or generate is called.                                    *)

\* a run makes at most MaxSweeps sweeps and takes at most MaxSamples samples
MaxSweeps == 6
MaxSamples == 2

\* Clique([node], ...): a node that prefers False
UnaryClique(node) ==
    [nodes |-> <<node>>, potential |-> [key \in {<<TRUE>>, <<FALSE>>} |->
                                           IF key[1] THEN 1 ELSE 3]]

\* Clique([node], ...): a node that cannot be True
ZeroClique(node) ==
    [nodes |-> <<node>>, potential |-> [key \in {<<TRUE>>, <<FALSE>>} |->
                                           IF key[1] THEN 0 ELSE 1]]

\* Clique([node1, node2], ...): two nodes that prefer to agree
PairClique(node1, node2) ==
    [nodes |-> <<node1, node2>>,
     potential |-> [key \in BOOLEAN \X BOOLEAN |->
                       IF key[1] = key[2] THEN 2 ELSE 1]]

\* the networks sampled: a chain of three nodes and a pair of nodes
Networks ==
    {MarkovNetwork_init(<<UnaryClique("P1"), PairClique("P1", "P2"),
                          PairClique("P2", "P3")>>),
     MarkovNetwork_init(<<PairClique("P1", "P2"), ZeroClique("P2")>>)}

\* the observed data: P2 observed False, the other nodes True; of the
\* chain at least one node is observed, of the pair any nodes are
Evidences(network) ==
    {[node \in E |-> node # "P2"] :
        E \in {S \in SUBSET network.nodes :
                  Cardinality(network.nodes \ S) <= 2}}

\* <<burnin, step>> of the samplers: burn-ins that are and that are not
\* multiples of the step, and the values of determine_gibbs_params
GibbsParams(network) ==
    {<<0, 1>>, <<1, 1>>, <<2, 1>>, <<1, 2>>, <<2, 2>>, <<3, 2>>}
       \cup {determine_gibbs_params(Cardinality(network.nodes))}

\* the orders in which a set can be iterated over
Orders(S) ==
    {order \in [1..Cardinality(S) -> S] :
        \A i, j \in 1..Cardinality(S) : i # j => order[i] # order[j]}

GibbsSamplers ==
    UNION {UNION {{GibbsSampler_init(network, evidence, params[1], params[2],
                                     uniform, order) :
                      params \in GibbsParams(network),
                      uniform \in [network.nodes -> BOOLEAN],
                      order \in Orders(network.nodes \ DOMAIN evidence)} :
                  evidence \in Evidences(network)} :
           network \in Networks}

InitGibbs ==
    /\ g \in GibbsSamplers
    /\ m = IsingModel_init(<<>>, <<>>)
    /\ constructed = [J |-> m.J, h |-> m.h]
    /\ last = NoClamp
    /\ call = NoSampleCall
    /\ cmp = NoCmp
    /\ py_major = 3
    /\ d = EmptyDict
    /\ written = {}
    /\ dcall = NoDictCall
    /\ NoPool
    /\ NoCopySer
    /\ exported = NoDwave
    /\ par = NoParallel

\* next(iterator): the generator starts, or resumes after its yield, and
\* begins a sweep
IterNext ==
    /\ g.pc \in {"constructed", "yielded"}
    /\ g.iteration < MaxSweeps
    /\ Len(g.samples) < MaxSamples
    /\ g' = [begin_sweep(g) EXCEPT !.op = "next"]
    /\ UNCHANGED <<m, constructed, last, call, cmp, py_major, d, written,
                   dcall, heap, added, pcall, copied, ser, exported, par>>

\* one variable is resampled
Resample(k) ==
    /\ g.pc = "sweep"
    /\ g.todo # <<>>
    /\ g' = resample(g, k)
    /\ UNCHANGED <<m, constructed, last, call, cmp, py_major, d, written,
                   dcall, heap, added, pcall, copied, ser, exported, par>>

\* the for loop is over: the sweep is yielded or the next one begins
EndSweep ==
    /\ g.pc = "sweep"
    /\ g.todo = <<>>
    /\ records(g) \/ g.iteration < MaxSweeps
    /\ g' = end_sweep(g)
    /\ UNCHANGED <<m, constructed, last, call, cmp, py_major, d, written,
                   dcall, heap, added, pcall, copied, ser, exported, par>>

\* sampler.generate(num_samples)
Generate(num_samples) ==
    /\ g.pc = "constructed"
    /\ g' = GibbsSampler_generate(g, num_samples)
    /\ UNCHANGED <<m, constructed, last, call, cmp, py_major, d, written,
                   dcall, heap, added, pcall, copied, ser, exported, par>>

NextGibbs ==
    \/ IterNext
    \/ \E k \in RandomDraws : Resample(k)
    \/ EndSweep
    \/ \E num_samples \in 0..MaxSamples : Generate(num_samples)

SpecGibbs == InitGibbs /\ [][NextGibbs]_vars

\* the interpreter keeps running the sampler's only thread
SpecGibbsFair == SpecGibbs /\ WF_vars(NextGibbs)

----------------------------------------------------------------------------
(* Properties of GibbsSampler, checked under SpecGibbs and SpecGibbsFair.  *)

\* C22: Gibbs sampling terminates.  A run generate(num_samples) eventually
\* stops without an error, and then the number of recorded samples has
\* reached num_samples.
C22_GibbsTerminates ==
    (g.op = "generate") ~>
        (g.pc # "sweep" /\ g.error = "none"
            /\ Len(g.samples) = g.num_samples)

\* C23: Gibbs recording schedule.  None of the first burnin sweeps is
\* recorded, and consecutive recorded sweeps are exactly step sweeps apart.
C23_RecordingSchedule ==
    /\ \A i \in 1..Len(g.samples) : g.samples[i].iteration > g.burnin
    /\ \A i \in 1..(Len(g.samples) - 1) :
          g.samples[i + 1].iteration - g.samples[i].iteration = g.step

\* a recorded sample repeats the assignment of an earlier one
Repeated(samples) ==
    \E i, j \in 1..Len(samples) :
       i < j /\ samples[i].assignment = samples[j].assignment

\* the sampler after its generator was advanced with next() for as long as it
\* has made fewer than sweeps sweeps, draws holding the random numbers drawn
RECURSIVE iterate(_, _, _)
iterate(self, draws, sweeps) ==
    IF self.pc \in {"constructed", "yielded"}
    THEN IF self.iteration < sweeps
         THEN iterate(begin_sweep(self), draws, sweeps)
         ELSE self
    ELSE IF self.pc = "sweep" /\ self.todo # <<>>
    THEN iterate(resample(self, Head(draws)), Tail(draws), sweeps)
    ELSE IF self.pc = "sweep" /\ (records(self) \/ self.iteration < sweeps)
    THEN iterate(end_sweep(self), draws, sweeps)
    ELSE self

\* the runs looked at: a run makes MaxSamples + 1 sweeps more, and of each
\* draw the random number is the smallest or the largest that
\* random.random() returns
RunSweeps(self) == self.iteration + MaxSamples + 1
RunDraws(self) ==
    [1..(Len(self.todo) + (MaxSamples + 1) * Len(self.order))
        -> {0, RandomDen - 1}]

\* C24 as stated: there is a run, of the sampler from where it is or of any
\* sampler from its construction, and with some random numbers, in which a
\* recorded sample repeats an earlier one and that has made more than
\* burnin + step * k sweeps when it records its k-th sample.
C24_MergesLengthenRun ==
    \E self \in {g} \cup GibbsSamplers :
       \E draws \in RunDraws(self) :
          LET run == iterate(self, draws, RunSweeps(self))
          IN  \E k \in 1..Len(run.samples) :
                 /\ Repeated(SubSeq(run.samples, 1, k))
                 /\ run.samples[k].iteration > self.burnin + self.step * k

\* C24 as amended: the sweep that has just been recorded is a sample of its
\* own, whether or not it repeats the assignment of an earlier one, and when
\* the k-th sample has been recorded the sampler has made at most
\* burnin + step * k sweeps.
C24_SweepsBounded ==
    g.pc = "yielded" =>
       /\ g.samples[Len(g.samples)].iteration = g.iteration
       /\ g.iteration <= g.burnin + g.step * Len(g.samples)

\* two samples with the same assignment were recorded, of a sampler with
\* unobserved variables and a burn-in
C24_Witness ==
    /\ g.pc = "yielded"
    /\ Len(g.samples) >= 2
    /\ Repeated(g.samples)
    /\ g.unobserved_vars # {}
    /\ g.burnin > 0
    /\ g.step > 1

\* the elements of a sequence
Range(s) == {s[i] : i \in 1..Len(s)}

\* the assignment a variable resampled now is conditioned on: the new values
\* of the variables resampled earlier in the sweep, and the values the
\* other variables had when the sweep began
SequentialAssignment ==
    [node \in DOMAIN g.assignment |->
        IF node \in Range(g.resampled) THEN g.assignment[node]
        ELSE g.sweep_start[node]]

C25_State ==
    \* when the for loop of a sweep is over, every unobserved variable was
    \* resampled exactly once
    /\ (g.op = "next" /\ g.todo = <<>>) =>
          /\ Range(g.resampled) = g.unobserved_vars
          /\ Len(g.resampled) = Cardinality(g.unobserved_vars)
    \* the observed variables have their observed value, now and in every
    \* recorded sample
    /\ \A node \in DOMAIN g.evidence :
          /\ g.assignment[node] = g.evidence[node]
          /\ \A i \in 1..Len(g.samples) :
                g.samples[i].assignment[node] = g.evidence[node]

C25_Step ==
    (g.pc = "sweep" /\ g.todo # <<>> /\ g'.pc = "sweep") =>
       LET variable == Head(g.todo)
       IN  /\ variable \in g.unobserved_vars
           /\ variable \notin Range(g.resampled)
           /\ g'.resampled = Append(g.resampled, variable)
           /\ g'.probability =
                 node_probability(g.network, SequentialAssignment, variable)
           /\ \A node \in DOMAIN g.assignment \ {variable} :
                 g'.assignment[node] = g.assignment[node]

\* C25: sequential Gibbs sweep.  In one sweep every unobserved variable is
\* resampled exactly once; the probability a variable is resampled with is
\* computed from the assignment that holds the new values of the variables
\* resampled earlier in the sweep; observed variables keep their observed
\* value in every state and in every recorded sample.
C25_SequentialSweep == []C25_State /\ [][C25_Step]_vars

\* with a variable observed, the second variable of a sweep was resampled
\* with a probability that differs from the one the assignment at the
\* beginning of the sweep gives
C25_Witness ==
    /\ g.pc = "sweep"
    /\ Len(g.resampled) >= 2
    /\ g.evidence # EmptyDict
    /\ g.probability.error = "none"
    /\ g.probability #
          node_probability(g.network, g.sweep_start,
                           g.resampled[Len(g.resampled)])

----------------------------------------------------------------------------
(* Specification SpecParallel: BruteforceSampler.sample on the models of   *)
(* the pool checks, for any number of workers and any order in which the   *)
(* tasks complete.                                                         *)

\* the models sampled: the models over these variables, clamped or not
ParallelModels ==
    UNION {{ClampAll(model, c) : c \in ClampInputs(model)} :
              model \in PoolModels}

InitParallel ==
    /\ m \in ParallelModels
    /\ constructed = [J |-> m.J, h |-> m.h]
    /\ last = NoClamp
    /\ call = NoSampleCall
    /\ cmp = NoCmp
    /\ py_major \in PyVersions
    /\ d = EmptyDict
    /\ written = {}
    /\ dcall = NoDictCall
    /\ NoPool
    /\ NoCopySer
    /\ NoExportRun

SpecParallel == InitParallel /\ [][NextBrute]_vars

\* the (assignment, occurrence count, energy) entries of a pool's list
Entries(list) ==
    {<<list[i].assignment, list[i].occurences, list[i].energy>> :
        i \in 1..Len(list)}

C26_State ==
    (par.op = "sample" /\ par.pc \in {"returned", "raised"}) =>
       \* sample returned a pool
       /\ par.pc = "returned"
       \* every assignment was folded exactly once
       /\ \A i \in 1..Len(generate_assignments(m)) :
             Cardinality({j \in 1..Len(par.folded) :
                 par.folded[j] = generate_assignments(m)[i]}) = 1
       \* the pool has the entries of a sequential run
       /\ sample(m, py_major).error = "none"
       /\ Entries(heap) = Entries(sample(m, py_major).heap)

C26_Step ==
    \* the workers only read the model
    /\ m' = m
    \* the pool changes only by an add of the calling thread, made while no
    \* task runs, one solution at a time
    /\ (par.op = "sample" /\ heap' # heap) =>
          /\ par.pc = "fold"
          /\ par.running = {}
          /\ SamplePool_len(heap') = SamplePool_len(heap) + 1

\* C26: exhaustive sampler under parallel chunk evaluation.  For any number
\* of workers and any order in which the evaluations complete, the workers
\* only read the model and never touch the pool, the adds are made one at a
\* time by the calling thread, every assignment is folded exactly once, and
\* the final pool has the entries of a sequential run.
C26_ParallelChunks == []C26_State /\ [][C26_Step]_vars

----------------------------------------------------------------------------
(* The structure of SamplePool, checked under SpecPool.                    *)

C27_State ==
    \* the list and the lookup table hold the same Samples
    /\ \A i \in Pooled : heap[i].in_dict
    /\ Cardinality(SamplePool_dict(heap)) = Len(heap)
    \* one Sample per distinct assignment
    /\ \A i, j \in Pooled :
          heap[i].assignment = heap[j].assignment => i = j
    \* no Sample is less than its parent in the heap
    /\ \A i \in 2..Len(heap) :
          IsingSample_lt(heap[i], heap[i \div 2], py_major) = "False"

C27_Step ==
    \* an add that appends nothing is a merge: every pooled Sample keeps its
    \* position, assignment and energy
    (pcall'.op = "add" /\ Len(heap') = Len(heap)) =>
       \A i \in Pooled :
          /\ heap'[i].assignment = heap[i].assignment
          /\ heap'[i].energy = heap[i].energy
          /\ heap'[i].in_dict = heap[i].in_dict

\* C27: pool structure invariant.  After any sequence of adds the heap list
\* and the lookup table hold exactly the same Samples, one per distinct
\* assignment, the list has the binary-heap order property under the Sample
\* order, and a merge changes only the occurrence count of the pooled
\* Sample, never its position, energy or assignment.
C27_PoolStructure == []C27_State /\ [][C27_Step]_vars

----------------------------------------------------------------------------
(* Further properties of IsingModel.clamp, checked under Spec.             *)

C28_Step ==
    /\ (last'.op = "clamp"
          /\ last'.result \in {"invalid", "unknown", "conflict"}) => m' = m
    /\ m' # m => (last'.op = "clamp" /\ last'.result = "done")

\* C28: a failing clamp changes nothing.  Whenever clamp raises (for a
\* value that is not a spin, a variable that is not in the model, or a
\* variable already clamped to the other value), J, h, J_clamped, h_clamped,
\* variables, clamped and energy_offset are as before the call; only a
\* successful clamp changes the model.
C28_FailingClamp == [][C28_Step]_vars

\* clamp has raised on a model that has a clamped and an active variable,
\* for a variable that is active and a value that is not a spin
C28_Witness ==
    /\ last.op = "clamp"
    /\ last.result = "invalid"
    /\ last.variable \in m.variables
    /\ m.clamped # EmptyDict
    /\ DOMAIN m.J_clamped # {}

\* the variables the reduced views mention
ReducedVariables == (DOMAIN m.h_clamped) \cup elements(m.J_clamped)

\* C29: reduced views mention only active variables.  In every state
\* reached by construction and clamps, keys(h_clamped) united with the
\* endpoints of J_clamped is exactly the active variable set; no reduced
\* term refers to a clamped variable, so that a clamp never meets a
\* coupling between two clamped variables; as_dwave finds every variable
\* it looks up, and so does the energy evaluation of a Sample.
C29_ReducedViews ==
    /\ ReducedVariables = m.variables
    /\ ReducedVariables \cap DOMAIN m.clamped = {}
    /\ \A edge \in DOMAIN m.J_clamped :
          edge[1] \notin DOMAIN m.clamped /\ edge[2] \notin DOMAIN m.clamped
    /\ as_dwave(m).error = "none"
    /\ \A x \in [m.variables -> Spins] :
          ReducedVariables \subseteq DOMAIN expand_sample(m, x)

\* a variable is clamped, and an active variable that was given no bias has
\* a reduced bias, next to a reduced coupling
C29_Witness ==
    /\ m.clamped # EmptyDict
    /\ \E v \in m.variables : v \notin DOMAIN m.h /\ v \in DOMAIN m.h_clamped
    /\ DOMAIN m.J_clamped # {}
    /\ DOMAIN m.J_clamped # DOMAIN m.J

\* the attributes of a model as == compares them: the dictionaries without
\* the order of their keys, the numbers without their type
attributes(model) ==
    [J             |-> model.J,
     h             |-> model.h,
     J_clamped     |-> model.J_clamped,
     h_clamped     |-> model.h_clamped,
     clamped       |-> model.clamped,
     energy_offset |-> model.energy_offset,
     variables     |-> model.variables]

\* C30: clamp order does not matter.  For two distinct active variables u,
\* v (named so that u < v) and spins a, b, clamp(u, a) then clamp(v, b)
\* gives the same model as clamp(v, b) then clamp(u, a); and the model
\* reached by any sequence of clamps is the model that clamping the same
\* (variable, value) pairs in ascending order of the variables gives.
C30_ClampOrder ==
    /\ \A u, v \in m.variables : \A a, b \in Spins :
          u < v =>
             attributes(clamp(clamp(m, u, a).model, v, b).model)
                = attributes(clamp(clamp(m, v, b).model, u, a).model)
    /\ attributes(m) = attributes(ClampAll(Unclamped, m.clamped))

\* two variables joined by a coupling were clamped to different values, the
\* smaller one last, while a third variable is active
C30_Witness ==
    /\ last.op = "clamp"
    /\ last.result = "done"
    /\ \E v \in DOMAIN m.clamped :
          /\ last.variable < v
          /\ sorted_key(<<last.variable, v>>) \in DOMAIN m.J
          /\ m.clamped[v] # last.value
    /\ m.energy_offset # 0
    /\ m.variables # {}

====
